---- MODULE Spec2Model ----
(***************************************************************************)
(* Model of the DU processing-time pipeline:                               *)
(*   extract_du_from_html.py  (Extractor: raw task table -> canonical CSV) *)
(*   du_speed_analysis.py     (Aggregator: CSV -> acceleration, figures)   *)
(*                                                                         *)
(* Text is modelled as a sequence of characters (one-character strings);   *)
(* the header marker of the raw table is one symbol, MARK.  Scenario       *)
(* labels and the marker are transliterated to ASCII.  Numbers are exact   *)
(* rationals <<n, d>>; NaN / NaT / a missing cell is the empty tuple.      *)
(***************************************************************************)
EXTENDS Integers, Sequences, FiniteSets, TLC

VARIABLES
    htmlExists,   \* HTML_PATH.exists()
    nTables,      \* number of tables pd.read_html finds in the document
    raw,          \* tables[3] of the HTML document: the raw task rows
    store,        \* the file CSV_OUT / DATA_PATH: [exists, rows]
    prevStore,    \* the file CSV_OUT as the last extractor run found it
    extRuns,      \* number of completed runs of extract_du_from_html.main
    extRc,        \* return code of the last run of extract_du_from_html.main
    extOut,       \* standard output of the last extractor run: "none", "summary", "error"
    aggPc,        \* position of du_speed_analysis.main
    df,           \* the DataFrame held by du_speed_analysis.main
    accel,        \* the acceleration frame held by du_speed_analysis.main
    figures,      \* the figure files written to OUT_DIR
    rolling,      \* the rolling means plot_rolling_avg computed, per scenario
    weekly,       \* the weekly frame plot_weekly_acceleration computed
    aggRc,        \* return code of du_speed_analysis.main
    aggErr,       \* the exception caught by du_speed_analysis.main
    gen,          \* the entry point whose main runs: WORD, EXTENDED or the aggregator
    repPc,        \* position of the report generator's main
    repDf,        \* the frame read_data() of the report generator returned
    stats,        \* the dictionary calculate_statistics returned
    doc,          \* the blocks of the Document under construction
    chartNo,      \* the chart create_word_document is to add next
    docFile,      \* the file OUT_PATH: [exists, content]
    repRc,        \* return code of the report generator's main
    repErr,       \* the exception caught by the report generator's main
    callFn,       \* the chart function each concurrent call runs
    callPc,       \* position of each concurrent call of a chart function
    figs,         \* every figure created so far: [owner, drawn]
    open,         \* pyplot's registry: the numbers of the open figures, the
                  \* current figure last
    fig,          \* the figure each call created (fig, ax of plt.subplots)
    saved,        \* what each call's plt.savefig wrote to its buffer or file
    closed        \* the figure each call's plt.close() closed

vars == <<htmlExists, nTables, raw, store, prevStore, extRuns, extRc, extOut,
          aggPc, df, accel, figures, rolling, weekly, aggRc, aggErr,
          gen, repPc, repDf, stats, doc, chartNo, docFile, repRc, repErr,
          callFn, callPc, figs, open, fig, saved, closed>>

extVars == <<htmlExists, nTables, raw, prevStore, extRuns, extRc, extOut>>
aggVars == <<aggPc, df, accel, figures, rolling, weekly, aggRc, aggErr>>
repVars == <<gen, repPc, repDf, stats, doc, chartNo, docFile, repRc, repErr>>
pltVars == <<callFn, callPc, figs, open, fig, saved, closed>>

-----------------------------------------------------------------------------
(* Bounds *)

MaxRows == 2        \* rows of the raw task table
MaxStoreRows == 2   \* rows of a store that the extractor did not write
MaxExtRuns == 2     \* runs of the extractor in one behaviour
MaxSeriesRows == 4  \* rows of a store of well-formed measurements
NCalls == 2         \* chart functions called concurrently

-----------------------------------------------------------------------------
(* Labels and characters *)

BASELINE == "Tipovoy"
NO_DUPS == "Bez dubley obmenov"
NO_DUPS_PARALLEL == "Bez dubley obmenov + Parallelnye portfeli"
MARK == "Dlitelnost"
SPACE == " "
NBSP == "nbsp"

NaN == <<>>

Range(f) == {f[i] : i \in DOMAIN f}

DigitChars == <<"0", "1", "2", "3", "4", "5", "6", "7", "8", "9">>

IsDigit(c) == \E i \in 1..10 : DigitChars[i] = c

DigitVal(c) == (CHOOSE i \in 1..10 : DigitChars[i] = c) - 1

-----------------------------------------------------------------------------
(* Rational arithmetic: <<n, d>> with d > 0, in lowest terms *)

Abs(n) == IF n < 0 THEN -n ELSE n

RECURSIVE GCD(_, _)
GCD(a, b) == IF b = 0 THEN a ELSE GCD(b, a % b)

RNorm(n, d) ==
    LET g == GCD(Abs(n), d)
    IN  IF g = 0 THEN <<0, 1>> ELSE <<n \div g, d \div g>>

RAdd(a, b) == RNorm(a[1] * b[2] + b[1] * a[2], a[2] * b[2])

RECURSIVE Pow10(_)
Pow10(k) == IF k = 0 THEN 1 ELSE 10 * Pow10(k - 1)

-----------------------------------------------------------------------------
(* Calendar *)

IsLeap(y) == (y % 4 = 0 /\ y % 100 # 0) \/ y % 400 = 0

DaysInMonth(y, m) ==
    IF m = 2 THEN (IF IsLeap(y) THEN 29 ELSE 28)
    ELSE IF m \in {4, 6, 9, 11} THEN 30 ELSE 31

ValidDate(y, m, d) ==
    /\ y \in 1..9999
    /\ m \in 1..12
    /\ d \in 1..DaysInMonth(y, m)

\* datetime.date comparison
DateLE(a, b) ==
    \/ a.year < b.year
    \/ a.year = b.year /\ a.month < b.month
    \/ a.year = b.year /\ a.month = b.month /\ a.day <= b.day

Date(y, m, d) == [year |-> y, month |-> m, day |-> d]

RECURSIVE DaysBeforeMonth(_, _)
DaysBeforeMonth(y, m) ==
    IF m = 1 THEN 0 ELSE DaysBeforeMonth(y, m - 1) + DaysInMonth(y, m - 1)

\* datetime.date.toordinal(): 0001-01-01, a Monday, is day 1
Ordinal(date) ==
    LET y == date.year - 1
    IN  365 * y + (y \div 4) - (y \div 100) + (y \div 400)
        + DaysBeforeMonth(date.year, date.month) + date.day

\* datetime.date.isoweekday(): Monday is 1, Sunday is 7
IsoWeekday(date) == ((Ordinal(date) - 1) % 7) + 1

\* Series.dt.isocalendar().week: the number of the ISO week, which is the
\* week of the ISO year that holds the Thursday of the date's week
IsoWeek(date) ==
    LET thursday == Ordinal(date) - IsoWeekday(date) + 4
        y == date.year
        isoYear == IF thursday < Ordinal(Date(y, 1, 1)) THEN y - 1
                   ELSE IF thursday > Ordinal(Date(y, 12, 31)) THEN y + 1
                   ELSE y
    IN  ((thursday - Ordinal(Date(isoYear, 1, 1))) \div 7) + 1

-----------------------------------------------------------------------------
(* extract_du_from_html.py *)

\* the first boundary taken as an exclusive upper bound
assign_scenario_exclusive(date) ==
    IF ~DateLE(Date(2025, 10, 8), date) THEN BASELINE
    ELSE IF DateLE(date, Date(2025, 10, 16)) THEN NO_DUPS
    ELSE NO_DUPS_PARALLEL

assign_scenario(date) ==
    IF DateLE(date, Date(2025, 10, 8)) THEN BASELINE
    ELSE IF DateLE(date, Date(2025, 10, 16)) THEN NO_DUPS
    ELSE NO_DUPS_PARALLEL

\* str.contains('...') on the text of a cell
StrContains(text, sym) == \E i \in 1..Len(text) : text[i] = sym

\* str.replace(' ', ''): removes the character U+0020 and no other
StrReplaceSpace(text) == SelectSeq(text, LAMBDA c : c # SPACE)

RECURSIVE DigitsValue(_)
DigitsValue(ds) ==
    IF Len(ds) = 0 THEN 0
    ELSE 10 * DigitsValue(SubSeq(ds, 1, Len(ds) - 1)) + DigitVal(ds[Len(ds)])

\* pd.to_numeric(..., errors='coerce') on one text: digits with at most one
\* decimal point give the number, anything else gives NaN
ToNumeric(text) ==
    LET dots == {i \in 1..Len(text) : text[i] = "."}
        digs == SelectSeq(text, IsDigit)
        p == IF dots = {} THEN Len(text) ELSE CHOOSE i \in dots : TRUE
    IN  IF /\ Cardinality(dots) <= 1
           /\ Len(digs) >= 1
           /\ Len(digs) + Cardinality(dots) = Len(text)
        THEN RNorm(DigitsValue(digs), Pow10(Len(text) - p))
        ELSE NaN

\* pd.to_datetime(..., format='%d.%m.%Y %H:%M:%S', errors='coerce') on one
\* cell <<DD, MM, YYYY, HH, MM, SS>>; NaT when the cell is not such a timestamp
ToDatetime(cell) ==
    IF /\ Len(cell) = 6
       /\ ValidDate(cell[3], cell[2], cell[1])
       /\ cell[4] \in 0..23 /\ cell[5] \in 0..59 /\ cell[6] \in 0..59
    THEN [year |-> cell[3], month |-> cell[2], day |-> cell[1],
          hour |-> cell[4], minute |-> cell[5], second |-> cell[6]]
    ELSE NaN

\* Series.dt.date
DtDate(ts) == Date(ts.year, ts.month, ts.day)

\* Series.dt.strftime('%Y-%m-%d'): the text YYYY-MM-DD as <<YYYY, MM, DD>>
Strftime(date) == <<date.year, date.month, date.day>>

RECURSIVE SortDates(_)
SortDates(S) ==
    IF S = {} THEN <<>>
    ELSE LET m == CHOOSE a \in S : \A b \in S : DateLE(a, b)
         IN  <<m>> \o SortDates(S \ {m})

RECURSIVE SumMinutes(_)
SumMinutes(rows) ==
    IF Len(rows) = 0 THEN <<0, 1>>
    ELSE RAdd(rows[1].minutes, SumMinutes(Tail(rows)))

\* dtype of the 'minutes' column of the result: pd.read_html gives a numeric
\* column when every cell is empty or a number (float64 when a cell is empty
\* or has a fraction), pd.to_numeric gives float64 when a text is coerced to
\* NaN or has a fraction, int64 otherwise
MinutesIsFloat(table, coerced) ==
    LET Frac(text) == ToNumeric(text) # NaN /\ ToNumeric(text)[2] # 1
        numericCol == \A i \in 1..Len(table) :
                         table[i].minutes = <<>> \/ ToNumeric(table[i].minutes) # NaN
    IN  \/ numericCol /\ \E i \in 1..Len(table) :
                            table[i].minutes = <<>> \/ Frac(table[i].minutes)
        \/ \E i \in 1..Len(coerced) :
               LET t == StrReplaceSpace(coerced[i].minutes)
               IN  ToNumeric(t) = NaN \/ Frac(t)

\* the text of the 'minutes' cell after .astype(str).str.replace(' ', ''),
\* read as a number by pd.to_numeric
RowMinutes(r) == ToNumeric(StrReplaceSpace(r.minutes))

\* the calendar date of the START timestamp
RowDate_start(r) == DtDate(ToDatetime(r.datetime_start))

\* df['date_end'].dt.date: the calendar date of the END timestamp
RowDate(r) == DtDate(ToDatetime(r.datetime_end))

\* the four filters of extract(), in the order of the code
Surviving(table) ==
    LET \* df[df['minutes'].notna()]
        s1 == SelectSeq(table, LAMBDA r : r.minutes # <<>>)
        \* df[~df['minutes'].astype(str).str.contains(MARK)]
        s2 == SelectSeq(s1, LAMBDA r : ~StrContains(r.minutes, MARK))
        \* df[df['date_end'].notna()]
        s3 == SelectSeq(s2, LAMBDA r : ToDatetime(r.datetime_end) # NaN)
        \* df[df['minutes'].notna()] after pd.to_numeric
    IN  SelectSeq(s3, LAMBDA r : RowMinutes(r) # NaN)

\* the rows that reach pd.to_numeric
Coerced(table) ==
    LET s1 == SelectSeq(table, LAMBDA r : r.minutes # <<>>)
        s2 == SelectSeq(s1, LAMBDA r : ~StrContains(r.minutes, MARK))
    IN  SelectSeq(s2, LAMBDA r : ToDatetime(r.datetime_end) # NaN)

\* extract(): the daily totals of tables[3]
extract(table) ==
    LET surv == Surviving(table)
        \* df['date'] = df['date_end'].dt.date
        s5 == [i \in 1..Len(surv) |->
                 [date |-> RowDate(surv[i]), minutes |-> RowMinutes(surv[i])]]
        \* groupby('date') sorts the group keys
        days == SortDates({s5[i].date : i \in 1..Len(s5)})
    IN  [isFloat |-> MinutesIsFloat(table, Coerced(table)),
         rows |-> [k \in 1..Len(days) |->
                     [date |-> Strftime(days[k]),
                      scenario |-> assign_scenario(days[k]),
                      minutes |-> SumMinutes(SelectSeq(s5, LAMBDA r : r.date = days[k]))]]]

RECURSIVE Digits(_)
Digits(n) ==
    IF n < 10 THEN <<DigitChars[n + 1]>>
    ELSE Digits(n \div 10) \o <<DigitChars[(n % 10) + 1]>>

RECURSIVE PadDigits(_, _)
PadDigits(n, k) ==
    IF k = 0 THEN <<>>
    ELSE PadDigits(n \div 10, k - 1) \o <<DigitChars[(n % 10) + 1]>>

\* the text to_csv writes for one number of an int64 / float64 column
FormatMinutes(r, isFloat) ==
    IF ~isFloat THEN Digits(r[1])
    ELSE LET k == CHOOSE j \in 1..6 :
                     /\ Pow10(j) % r[2] = 0
                     /\ \A i \in 1..(j - 1) : Pow10(i) % r[2] # 0
         IN  Digits(r[1] \div r[2]) \o <<".">>
                \o PadDigits((r[1] % r[2]) * (Pow10(k) \div r[2]), k)

\* df.to_csv(CSV_OUT, sep=';', index=False): the data lines of the file
ToCsv(frame) ==
    [i \in 1..Len(frame.rows) |->
        [date |-> frame.rows[i].date,
         scenario |-> frame.rows[i].scenario,
         minutes |-> FormatMinutes(frame.rows[i].minutes, frame.isFloat)]]

\* main() that takes an absent document for an empty one
ExtractMainResult_noCheck(exists, tables, table, file) ==
    [rc |-> 0, out |-> "summary",
     file |-> [exists |-> TRUE, rows |-> ToCsv(extract(table))]]

\* main() that writes with to_csv(mode='a')
ExtractMainResult_append(exists, tables, table, file) ==
    IF ~exists \/ tables < 4
    THEN [rc |-> 1, out |-> "error", file |-> file]
    ELSE [rc |-> 0, out |-> "summary",
          file |-> [exists |-> TRUE, rows |-> file.rows \o ToCsv(extract(table))]]

\* main() that opens CSV_OUT for writing before it calls extract()
ExtractMainResult_openFirst(exists, tables, table, file) ==
    IF ~exists \/ tables < 4
    THEN [rc |-> 1, out |-> "error", file |-> [exists |-> TRUE, rows |-> <<>>]]
    ELSE [rc |-> 0, out |-> "summary",
          file |-> [exists |-> TRUE, rows |-> ToCsv(extract(table))]]

\* main() of extract_du_from_html.py: the result of one run on the document
\* and the store it finds
ExtractMainResult(exists, tables, table, file) ==
    IF ~exists
    THEN \* extract() raises FileNotFoundError before reading anything
         [rc |-> 1, out |-> "error", file |-> file]
    ELSE IF tables < 4
    THEN \* tables[3] raises IndexError
         [rc |-> 1, out |-> "error", file |-> file]
    ELSE \* df.to_csv(CSV_OUT, ...) replaces the file
         [rc |-> 0, out |-> "summary",
          file |-> [exists |-> TRUE, rows |-> ToCsv(extract(table))]]

-----------------------------------------------------------------------------
(* du_speed_analysis.py *)

\* pd.to_datetime(..., format="%Y-%m-%d", errors="coerce") on one text
\* <<YYYY, MM, DD>>; NaT when the text is not such a date
ToDate(text) ==
    IF Len(text) = 3 /\ ValidDate(text[1], text[2], text[3])
    THEN Date(text[1], text[2], text[3])
    ELSE NaN

RECURSIVE SortByDate(_)
SortByDate(rows) ==
    IF Len(rows) = 0 THEN <<>>
    ELSE LET i == CHOOSE j \in 1..Len(rows) :
                    /\ \A k \in 1..Len(rows) : DateLE(rows[j].date, rows[k].date)
                    /\ \A k \in 1..(j - 1) : ~DateLE(rows[k].date, rows[j].date)
         IN  <<rows[i]>> \o
             SortByDate(SubSeq(rows, 1, i - 1) \o SubSeq(rows, i + 1, Len(rows)))

\* read_data that fills a non-numeric duration with 0
read_data_fillZero(file) ==
    LET s1 == SelectSeq(file.rows, LAMBDA r : /\ ToDate(r.date) # NaN
                                              /\ r.scenario # ""
                                              /\ r.minutes # <<>>)
    IN  [i \in 1..Len(s1) |->
            [date |-> ToDate(s1[i].date),
             scenario |-> s1[i].scenario,
             minutes |-> IF ToNumeric(s1[i].minutes) = NaN THEN <<0, 1>>
                         ELSE ToNumeric(s1[i].minutes)]]

\* read_data(csv_path) on an existing file
read_data(file) ==
    LET \* df["date"] = pd.to_datetime(df["date"], ...)
        \* df.dropna(subset=["date", "scenario", "minutes"])
        s1 == SelectSeq(file.rows, LAMBDA r : /\ ToDate(r.date) # NaN
                                              /\ r.scenario # ""
                                              /\ r.minutes # <<>>)
        \* df["minutes"] = pd.to_numeric(df["minutes"], errors="coerce")
        \* df.dropna(subset=["minutes"])
        s2 == SelectSeq(s1, LAMBDA r : ToNumeric(r.minutes) # NaN)
    IN  [i \in 1..Len(s2) |->
            [date |-> ToDate(s2[i].date),
             scenario |-> s2[i].scenario,
             minutes |-> ToNumeric(s2[i].minutes)]]

\* float division baseline / scenario: NaN when an operand is NaN or both
\* are 0, infinite (denominator 0) when only the divisor is 0
FloatDiv(a, b) ==
    IF a = NaN \/ b = NaN THEN NaN
    ELSE IF b[1] = 0 THEN (IF a[1] = 0 THEN NaN ELSE <<1, 0>>)
    ELSE RNorm(a[1] * b[2], a[2] * b[1])

IsInf(x) == x # NaN /\ x[2] = 0

\* a pivot that keeps the first of several rows (aggfunc="first")
PivotCell_first(frame, date, scenario) ==
    LET sel == SelectSeq(frame, LAMBDA r : r.date = date /\ r.scenario = scenario)
    IN  IF Len(sel) = 0 THEN NaN ELSE sel[1].minutes

\* a pivot whose empty cells are 0 (fill_value=0)
PivotCell_zero(frame, date, scenario) ==
    LET sel == SelectSeq(frame, LAMBDA r : r.date = date /\ r.scenario = scenario)
        sum == SumMinutes(sel)
    IN  IF Len(sel) = 0 THEN <<0, 1>> ELSE RNorm(sum[1], sum[2] * Len(sel))

\* df.pivot_table(index="date", columns="scenario", values="minutes",
\* aggfunc="mean"): one cell
PivotCell(frame, date, scenario) ==
    LET sel == SelectSeq(frame, LAMBDA r : r.date = date /\ r.scenario = scenario)
        sum == SumMinutes(sel)
    IN  IF Len(sel) = 0 THEN NaN ELSE RNorm(sum[1], sum[2] * Len(sel))

PivotIndex(frame) == SortDates({frame[i].date : i \in 1..Len(frame)})

PivotColumns(frame) == {frame[i].scenario : i \in 1..Len(frame)}

\* no replacement of the infinite ratios
ReplaceInf_keep(x) == x

\* accel.replace([pd.NA, pd.NaT, inf, -inf], pd.NA)
ReplaceInf(x) == IF IsInf(x) THEN NaN ELSE x

\* compute_acceleration that returns an empty frame instead of raising
compute_acceleration_silent(frame) ==
    LET alts == PivotColumns(frame) \ {BASELINE}
        idx == PivotIndex(frame)
        acc == [k \in 1..Len(idx) |->
                  [date |-> idx[k],
                   ratio |-> [c \in alts |->
                                ReplaceInf(FloatDiv(PivotCell(frame, idx[k], BASELINE),
                                                    PivotCell(frame, idx[k], c)))]]]
    IN  [raises |-> "",
         columns |-> alts,
         rows |-> SelectSeq(acc, LAMBDA a : \E c \in alts : a.ratio[c] # NaN)]

\* compute_acceleration that drops a date as soon as one ratio is undefined
\* (dropna(how="any"))
compute_acceleration_dropAny(frame) ==
    LET cols == PivotColumns(frame)
        alts == cols \ {BASELINE}
        idx == PivotIndex(frame)
        acc == [k \in 1..Len(idx) |->
                  [date |-> idx[k],
                   ratio |-> [c \in alts |->
                                ReplaceInf(FloatDiv(PivotCell(frame, idx[k], BASELINE),
                                                    PivotCell(frame, idx[k], c)))]]]
    IN  IF BASELINE \notin cols
        THEN [raises |-> "ValueError: baseline required", columns |-> {}, rows |-> <<>>]
        ELSE IF alts = {}
        THEN [raises |-> "ValueError: no alternative scenarios", columns |-> {}, rows |-> <<>>]
        ELSE [raises |-> "",
              columns |-> alts,
              rows |-> SelectSeq(acc, LAMBDA a : \A c \in alts : a.ratio[c] # NaN)]

\* compute_acceleration(df): the exception it raises, or the frame it returns
compute_acceleration(frame) ==
    LET cols == PivotColumns(frame)
        alts == cols \ {BASELINE}
        idx == PivotIndex(frame)
        acc == [k \in 1..Len(idx) |->
                  [date |-> idx[k],
                   ratio |-> [c \in alts |->
                                ReplaceInf(FloatDiv(PivotCell(frame, idx[k], BASELINE),
                                                    PivotCell(frame, idx[k], c)))]]]
    IN  IF BASELINE \notin cols
        THEN [raises |-> "ValueError: baseline required", columns |-> {}, rows |-> <<>>]
        ELSE IF alts = {}
        THEN [raises |-> "ValueError: no alternative scenarios", columns |-> {}, rows |-> <<>>]
        ELSE [raises |-> "",
              columns |-> alts,
              \* .dropna(how="all")
              rows |-> SelectSeq(acc, LAMBDA a : \E c \in alts : a.ratio[c] # NaN)]

\* sum of a sequence of numbers
RECURSIVE RSum(_)
RSum(xs) == IF Len(xs) = 0 THEN <<0, 1>> ELSE RAdd(xs[1], RSum(Tail(xs)))

\* mean(), skipna: NaN values are left out, NaN when nothing is left
Mean(xs) ==
    LET defined == SelectSeq(xs, LAMBDA x : x # NaN)
        sum == RSum(defined)
    IN  IF Len(defined) = 0 THEN NaN ELSE RNorm(sum[1], sum[2] * Len(defined))

\* plot_rolling_avg(df, window=7)
WINDOW == 7

\* min_periods of a rolling window that is never reached
MinPeriods_one(window) == 1

\* min_periods=max(1, window // 2)
MinPeriods(window) == IF window \div 2 > 1 THEN window \div 2 ELSE 1

\* Series.rolling(window, min_periods).mean(): at each position the mean of
\* the last `window` observations, NaN while fewer than min_periods of them
\* are numbers
Rolling(xs, window, min_periods) ==
    [k \in 1..Len(xs) |->
        LET lo == IF k - window + 1 > 1 THEN k - window + 1 ELSE 1
            obs == SelectSeq(SubSeq(xs, lo, k), LAMBDA x : x # NaN)
        IN  IF Len(obs) < min_periods THEN NaN ELSE Mean(obs)]

\* the series plot_rolling_avg draws: for each scenario of df["scenario"]
\* .unique(), the rolling mean of that scenario's rows in date order
RollingAvg(frame, window) ==
    [s \in PivotColumns(frame) |->
        LET sub == SortByDate(SelectSeq(frame, LAMBDA r : r.scenario = s))
            roll == Rolling([k \in 1..Len(sub) |-> sub[k].minutes], window,
                            MinPeriods(window))
        IN  [k \in 1..Len(sub) |-> [date |-> sub[k].date, value |-> roll[k]]]]

\* the bin of resample("W") a date falls in: Monday to Sunday
WeekOf(date) == (Ordinal(date) - 1) \div 7

\* the value of one weekly bin when a missing sample counts as 0
ResampleMean_zeroFill(xs) ==
    LET sum == RSum([k \in 1..Len(xs) |-> IF xs[k] = NaN THEN <<0, 1>> ELSE xs[k]])
    IN  IF Len(xs) = 0 THEN <<0, 1>> ELSE RNorm(sum[1], sum[2] * Len(xs))

\* .mean() of the samples of one weekly bin
ResampleMean(xs) == Mean(xs)

\* accel.resample("W").mean(): one row per week from the week of the first
\* sample to the week of the last one
Resample(acc) ==
    IF Len(acc.rows) = 0 THEN <<>>
    ELSE LET first == WeekOf(acc.rows[1].date)
             last == WeekOf(acc.rows[Len(acc.rows)].date)
         IN  [k \in 1..(last - first + 1) |->
                LET bin == SelectSeq(acc.rows,
                                     LAMBDA a : WeekOf(a.date) = first + k - 1)
                IN  [week |-> first + k - 1,
                     mean |-> [c \in acc.columns |->
                                 ResampleMean([j \in 1..Len(bin) |-> bin[j].ratio[c]])]]]

NoFrame == <<>>
NoAccel == [raises |-> "", columns |-> {}, rows |-> <<>>]
NoRolling == <<>>
NoWeekly == <<>>

-----------------------------------------------------------------------------
(* generate_word_report.py and generate_extended_word_report.py *)

WORD == "generate_word_report"
EXTENDED == "generate_extended_word_report"

\* pd.read_csv types the minutes column: numbers when every cell is a number
\* or empty, text (dtype object) as soon as one cell is neither
ObjectColumn(rows) ==
    \E i \in 1..Len(rows) : rows[i].minutes # <<>> /\ ToNumeric(rows[i].minutes) = NaN

\* read_data(): the exception it raises, or the frame it returns.  The dates
\* are parsed without errors="coerce", so a date that cannot be parsed
\* raises; no row is dropped.  An empty scenario cell is NaN, written "".
report_read_data(file) ==
    IF ~file.exists
    THEN [raises |-> "FileNotFoundError", object |-> FALSE, rows |-> <<>>]
    ELSE IF \E i \in 1..Len(file.rows) : ToDate(file.rows[i].date) = NaN
    THEN [raises |-> "ValueError", object |-> FALSE, rows |-> <<>>]
    ELSE [raises |-> "",
          object |-> ObjectColumn(file.rows),
          rows |-> [i \in 1..Len(file.rows) |->
                      [date |-> ToDate(file.rows[i].date),
                       scenario |-> file.rows[i].scenario,
                       minutes |-> IF ObjectColumn(file.rows)
                                   THEN file.rows[i].minutes
                                   ELSE ToNumeric(file.rows[i].minutes)]]]

\* df['scenario'].unique(): the labels in the order of their first row
RECURSIVE Unique(_)
Unique(rows) ==
    IF Len(rows) = 0 THEN <<>>
    ELSE LET front == Unique(SubSeq(rows, 1, Len(rows) - 1))
             last == rows[Len(rows)].scenario
         IN  IF \E i \in 1..Len(front) : front[i] = last THEN front
             ELSE Append(front, last)

RSub(a, b) == RNorm(a[1] * b[2] - b[1] * a[2], a[2] * b[2])

\* float arithmetic on numbers that may be NaN or infinite
FloatSub(a, b) == IF a = NaN \/ b = NaN THEN NaN ELSE RSub(a, b)

FloatMulInt(a, k) ==
    IF a = NaN THEN NaN
    ELSE IF a[2] = 0 THEN (IF k = 0 THEN NaN ELSE a)
    ELSE RNorm(a[1] * k, a[2])

\* numpy float64 division: no ZeroDivisionError, the quotient by 0 is
\* infinite with the sign of the dividend, 0 / 0 is NaN
SignedDiv(a, b) ==
    IF a = NaN \/ b = NaN THEN NaN
    ELSE IF b[1] = 0
    THEN (IF a[1] = 0 THEN NaN ELSE <<IF a[1] > 0 THEN 1 ELSE -1, 0>>)
    ELSE IF b[1] < 0 THEN RNorm(-(a[1] * b[2]), a[2] * (-b[1]))
    ELSE RNorm(a[1] * b[2], a[2] * b[1])

\* data = df[df['scenario'] == scenario]['minutes']: NaN equals nothing, so
\* the rows without a scenario are in no selection
MinutesOf(rows, scenario) ==
    LET sel == SelectSeq(rows, LAMBDA r : r.scenario = scenario /\ scenario # "")
    IN  [i \in 1..Len(sel) |-> sel[i].minutes]

\* the entry of one scenario before the comparison with the baseline: count
\* is len(data), mean and total skip NaN (median, std, min, max and the
\* quartiles are computed the same way and are not used by the model)
BaseStats(rows, scenario) ==
    LET data == MinutesOf(rows, scenario)
    IN  [count |-> Len(data),
         mean |-> Mean(data),
         total |-> RSum(SelectSeq(data, LAMBDA x : x # NaN))]

\* calculate_statistics that compares the baseline with itself as well
ComparedWith_all(scenario, keys) ==
    \E i \in 1..Len(keys) : keys[i] = BASELINE

\* if base in stats: for scenario in stats: if scenario != base
ComparedWith(scenario, keys) ==
    /\ \E i \in 1..Len(keys) : keys[i] = BASELINE
    /\ scenario # BASELINE

\* calculate_statistics(df) of either generator: the exception it raises,
\* or the dictionary it returns as its keys in order and its entries.
\* A minutes column of text makes mean() raise TypeError.
calculate_statistics(g, frame) ==
    LET keys == Unique(frame.rows)
        base == BaseStats(frame.rows, BASELINE)
        entry(s) ==
            LET own == BaseStats(frame.rows, s)
                diff == FloatSub(base.mean, own.mean)
            IN  IF ~ComparedWith(s, keys) THEN own
                ELSE IF g = EXTENDED
                THEN [count |-> own.count, mean |-> own.mean, total |-> own.total,
                      improvement_pct |-> FloatMulInt(SignedDiv(diff, base.mean), 100),
                      total_time_saved |-> FloatMulInt(diff, own.count)]
                ELSE [count |-> own.count, mean |-> own.mean, total |-> own.total,
                      acceleration |-> SignedDiv(base.mean, own.mean)]
    IN  IF frame.object /\ Len(frame.rows) > 0
        THEN [raises |-> "TypeError", keys |-> <<>>, by |-> <<>>]
        ELSE [raises |-> "", keys |-> keys,
              by |-> [s \in Range(keys) |-> entry(s)]]

HasKey(st, scenario) == \E i \in 1..Len(st.keys) : st.keys[i] = scenario

\* the period printed for a scenario in section 2 (scenario descriptions) of
\* generate_word_report.py: a literal of the source
Period(scenario) ==
    IF scenario = BASELINE THEN <<Date(2025, 7, 1), Date(2025, 10, 8)>>
    ELSE IF scenario = NO_DUPS THEN <<Date(2025, 10, 9), Date(2025, 10, 16)>>
    ELSE <<Date(2025, 10, 17), Date(2025, 10, 30)>>

Narrative(st, scenario) ==
    [kind |-> "narrative", scenario |-> scenario, period |-> Period(scenario),
     days |-> st.by[scenario].count]

\* create_word_document up to the charts: the title block, the summary with
\* one line per compared scenario and, in generate_word_report.py only, the
\* scenario descriptions; stats[base_scenario] raises KeyError there when
\* the baseline has no entry
DocHead(g, st) ==
    LET title == [kind |-> "title"]
        compared == SelectSeq(st.keys, LAMBDA k : ComparedWith(k, st.keys))
        summary == [kind |-> "summary",
                    lines |-> [i \in 1..Len(compared) |->
                                 [scenario |-> compared[i], stat |-> st.by[compared[i]]]]]
    IN  IF g = EXTENDED
        THEN [raises |-> "", blocks |-> <<title, summary>>]
        ELSE IF ~HasKey(st, BASELINE)
        THEN [raises |-> "KeyError", blocks |-> <<title, summary>>]
        ELSE [raises |-> "",
              blocks |-> <<title, summary, Narrative(st, BASELINE)>>
                         \o (IF HasKey(st, NO_DUPS)
                             THEN <<Narrative(st, NO_DUPS)>> ELSE <<>>)
                         \o (IF HasKey(st, NO_DUPS_PARALLEL)
                             THEN <<Narrative(st, NO_DUPS_PARALLEL)>> ELSE <<>>)]

\* the chart functions create_word_document calls, in order
Charts(g) ==
    IF g = WORD
    THEN <<"create_chart_daily_comparison", "create_chart_box_comparison",
           "create_chart_rolling_average", "create_chart_acceleration",
           "create_chart_summary_bars">>
    ELSE <<"chart_01_daily_bars", "chart_02_box_plot", "chart_03_violin_plot",
           "chart_04_rolling_avg", "chart_05_cumulative", "chart_06_histograms",
           "chart_07_kde_plot", "chart_08_percentiles", "chart_09_weekly_heatmap",
           "chart_10_day_of_week", "chart_11_monthly_comparison",
           "chart_12_volatility", "chart_13_scatter_trend", "chart_14_qq_plot",
           "chart_15_area_chart", "chart_16_radar_comparison",
           "chart_17_summary_stats", "chart_18_min_max_range",
           "chart_19_improvement_bars", "chart_20_time_saved">>

\* the chart functions the module defines
Defined(g) ==
    IF g = WORD
    THEN {"create_chart_daily_comparison", "create_chart_box_comparison",
          "create_chart_rolling_average", "create_chart_heatmap_by_week",
          "create_chart_summary_bars"}
    ELSE Range(Charts(g))

\* what a rolling-average chart draws: rolling(7, min_periods=3).mean() of
\* each scenario's rows in date order
ChartRolling(frame) ==
    [s \in Range(Unique(frame.rows)) |->
        LET sub == SortByDate(SelectSeq(frame.rows,
                                        LAMBDA r : r.scenario = s /\ s # ""))
            roll == Rolling([k \in 1..Len(sub) |-> sub[k].minutes], 7, 3)
        IN  [k \in 1..Len(sub) |-> [date |-> sub[k].date, value |-> roll[k]]]]

\* str.zfill(2) of a week number
Zfill2(n) == IF n < 10 THEN <<"0">> \o Digits(n) ELSE Digits(n)

\* week_label: the calendar year of the date, '-W' and the ISO week number
WeekLabel(date) == Digits(date.year) \o <<"-", "W">> \o Zfill2(IsoWeek(date))

\* the pivot the weekly heat-map draws: one row per week_label, with the
\* dates of the rows that carry the label and, per scenario, the mean of
\* their minutes; rows without a scenario are in no group
Heatmap(frame) ==
    LET rows == SelectSeq(frame.rows, LAMBDA r : r.scenario # "")
        labels == {WeekLabel(rows[i].date) : i \in 1..Len(rows)}
        scenarios == {rows[i].scenario : i \in 1..Len(rows)}
    IN  [l \in labels |->
            LET sel == SelectSeq(rows, LAMBDA r : WeekLabel(r.date) = l)
            IN  [dates |-> {sel[i].date : i \in 1..Len(sel)},
                 mean |-> [s \in scenarios |->
                             LET cell == SelectSeq(sel, LAMBDA r : r.scenario = s)
                             IN  Mean([i \in 1..Len(cell) |-> cell[i].minutes])]]]

\* the characters of the month labels in the order of their code points
CharOrder ==
    <<" ", "0", "1", "2", "3", "4", "5", "6", "7", "8", "9", "A", "D", "F",
      "J", "M", "N", "O", "S", "a", "b", "c", "e", "g", "h", "i", "l", "m",
      "n", "o", "p", "r", "s", "t", "u", "v", "y">>

CharRank(c) == CHOOSE i \in 1..Len(CharOrder) : CharOrder[i] = c

\* the comparison of two str values: a <= b
RECURSIVE StrLE(_, _)
StrLE(a, b) ==
    IF Len(a) = 0 THEN TRUE
    ELSE IF Len(b) = 0 THEN FALSE
    ELSE IF a[1] = b[1] THEN StrLE(Tail(a), Tail(b))
    ELSE CharRank(a[1]) < CharRank(b[1])

\* sorted(...) of a set of str values
RECURSIVE SortedTexts(_)
SortedTexts(S) ==
    IF S = {} THEN <<>>
    ELSE LET m == CHOOSE a \in S : \A b \in S : StrLE(a, b)
         IN  <<m>> \o SortedTexts(S \ {m})

\* the month names of strftime('%B')
MonthNames ==
    << <<"J", "a", "n", "u", "a", "r", "y">>,
       <<"F", "e", "b", "r", "u", "a", "r", "y">>,
       <<"M", "a", "r", "c", "h">>,
       <<"A", "p", "r", "i", "l">>,
       <<"M", "a", "y">>,
       <<"J", "u", "n", "e">>,
       <<"J", "u", "l", "y">>,
       <<"A", "u", "g", "u", "s", "t">>,
       <<"S", "e", "p", "t", "e", "m", "b", "e", "r">>,
       <<"O", "c", "t", "o", "b", "e", "r">>,
       <<"N", "o", "v", "e", "m", "b", "e", "r">>,
       <<"D", "e", "c", "e", "m", "b", "e", "r">> >>

\* Series.dt.strftime('%B %Y')
MonthLabel(date) == MonthNames[date.month] \o <<" ">> \o Digits(date.year)

\* what chart_11_monthly_comparison draws: the month labels in the order of
\* sorted(), and per scenario one bar for each of them, the sum of the
\* scenario's minutes in the month or 0 when the scenario has no row in it;
\* rows without a scenario are in no group
Monthly(frame) ==
    LET rows == SelectSeq(frame.rows, LAMBDA r : r.scenario # "")
        months == SortedTexts({MonthLabel(rows[i].date) : i \in 1..Len(rows)})
        scenarios == {rows[i].scenario : i \in 1..Len(rows)}
    IN  [months |-> months,
         bars |-> [s \in scenarios |->
                     [k \in 1..Len(months) |->
                         LET sel == SelectSeq(rows, LAMBDA r :
                                        r.scenario = s /\ MonthLabel(r.date) = months[k])
                         IN  IF Len(sel) = 0 THEN <<0, 1>>
                             ELSE RSum(SelectSeq([i \in 1..Len(sel) |-> sel[i].minutes],
                                                 LAMBDA x : x # NaN))]]]

\* doc.add_picture(chart(df)) and the caption paragraph after it
DocChart(name, frame) ==
    << [kind |-> "picture", chart |-> name,
        data |-> IF name \in {"create_chart_rolling_average", "chart_04_rolling_avg"}
                 THEN ChartRolling(frame) ELSE <<>>,
        cells |-> IF name \in {"create_chart_heatmap_by_week", "chart_09_weekly_heatmap"}
                  THEN Heatmap(frame) ELSE <<>>,
        monthly |-> IF name = "chart_11_monthly_comparison"
                    THEN Monthly(frame) ELSE <<>>],
       [kind |-> "caption", chart |-> name] >>

\* the statistics table, one row per entry of stats, and the conclusions;
\* row.cells[0].text = scenario raises TypeError for the NaN label
DocTail(st) ==
    IF HasKey(st, "")
    THEN [raises |-> "TypeError", blocks |-> <<>>]
    ELSE [raises |-> "",
          blocks |-> << [kind |-> "table", rows |-> st.keys],
                        [kind |-> "conclusions"] >>]

NoDoc == [exists |-> FALSE, content |-> <<>>]
OldDoc == [exists |-> TRUE, content |-> <<[kind |-> "earlier report"]>>]
NoStats == [raises |-> "", keys |-> <<>>, by |-> <<>>]
NoReportFrame == [raises |-> "", object |-> FALSE, rows |-> <<>>]

-----------------------------------------------------------------------------
(* matplotlib.pyplot as the chart functions use it *)

\* chart functions of the three modules
ChartFns == {"chart_01_daily_bars", "chart_02_box_plot", "plot_daily_bars"}

\* the chart functions du_speed_analysis.main calls, in order
AggregatorCharts ==
    <<"plot_daily_bars", "plot_rolling_avg", "plot_acceleration",
      "plot_weekly_acceleration">>

\* the functions that draw through the Axes plt.subplots returned; the
\* functions of du_speed_analysis.py draw through pyplot (plt.bar, plt.plot)
UsesAxes(fn) == fn \notin Range(AggregatorCharts)

NewFigure(t) == [owner |-> t, drawn |-> {}]

NoImage == [num |-> 0, image |-> NewFigure(0)]

\* plt.gcf(): the figure opened last that is still open; a new figure is
\* created and registered when none is open
Gcf(fs, reg, t) ==
    IF Len(reg) > 0
    THEN [figs |-> fs, open |-> reg, num |-> reg[Len(reg)]]
    ELSE [figs |-> Append(fs, NewFigure(t)), open |-> <<Len(fs) + 1>>,
          num |-> Len(fs) + 1]

\* what a chart function has drawn when it calls plt.savefig
Artists(t, fn) ==
    IF UsesAxes(fn) THEN {<<t, "axes">>, <<t, "pyplot">>} ELSE {<<t, "pyplot">>}

-----------------------------------------------------------------------------
(* Inputs *)

Ts(d, m, y, hh, mm, ss) == <<d, m, y, hh, mm, ss>>

RawRow(start, end, minutes) ==
    [datetime_start |-> start, datetime_end |-> end, minutes |-> minutes]

\* rows of the raw task table: tasks on both sides of each scenario
\* boundary and in the next year, a task that ends on the day after it
\* starts, durations with
\* an embedded space, a no-break space, a fraction and a letter, a header
\* row, an empty duration and an impossible end date
RawRowPool ==
    { RawRow(Ts(8, 10, 2025, 10, 0, 0), Ts(8, 10, 2025, 10, 30, 0), <<"3", "0">>),
      RawRow(Ts(8, 10, 2025, 23, 50, 0), Ts(9, 10, 2025, 0, 10, 0), <<"1", SPACE, "2">>),
      RawRow(Ts(16, 10, 2025, 9, 0, 0), Ts(16, 10, 2025, 9, 7, 0), <<"7">>),
      RawRow(Ts(17, 10, 2025, 9, 0, 0), Ts(17, 10, 2025, 9, 2, 30), <<"2", ".", "5">>),
      RawRow(<<>>, <<>>, <<MARK>>),
      RawRow(Ts(8, 10, 2025, 11, 0, 0), Ts(8, 10, 2025, 11, 5, 0), <<>>),
      RawRow(Ts(9, 10, 2025, 11, 0, 0), Ts(9, 10, 2025, 11, 5, 0), <<"5", "x">>),
      RawRow(Ts(30, 9, 2025, 23, 0, 0), Ts(31, 9, 2025, 0, 4, 0), <<"4">>),
      RawRow(Ts(16, 10, 2025, 12, 0, 0), Ts(16, 10, 2025, 12, 9, 0), <<"1", NBSP, "2">>),
      RawRow(Ts(31, 12, 2025, 23, 58, 0), Ts(1, 1, 2026, 0, 1, 0), <<"3">>) }

StoreRow(date, scenario, minutes) ==
    [date |-> date, scenario |-> scenario, minutes |-> minutes]

\* lines of a store file that was not written by the extractor
StoreRowPool ==
    { StoreRow(<<2025, 10, 8>>, BASELINE, <<"1", "0", "0">>),
      StoreRow(<<2025, 10, 8>>, NO_DUPS, <<"5", "0">>),
      StoreRow(<<2025, 10, 8>>, NO_DUPS, <<"0">>),
      StoreRow(<<2025, 10, 8>>, BASELINE, <<"0">>),
      StoreRow(<<2025, 10, 9>>, NO_DUPS_PARALLEL, <<"4", "0">>),
      StoreRow(<<2025, 13, 1>>, BASELINE, <<"1", "0">>),
      StoreRow(<<2025, 10, 9>>, "", <<"1", "0">>),
      StoreRow(<<2025, 10, 9>>, BASELINE, <<"x">>),
      StoreRow(<<2025, 10, 9>>, NO_DUPS, <<>>),
      StoreRow(<<2025, 10, 9>>, BASELINE, <<"1", SPACE, "2">>) }

SeqsUpTo(S, n) == UNION {[1..k -> S] : k \in 0..n}

NoFile == [exists |-> FALSE, rows |-> <<>>]

File(rows) == [exists |-> TRUE, rows |-> rows]

\* the document: absent, without a fourth table, or with the task table
Documents(tablesOf) ==
    {[exists |-> FALSE, tables |-> 0, table |-> <<>>],
     [exists |-> TRUE, tables |-> 3, table |-> <<>>]}
    \cup {[exists |-> TRUE, tables |-> 4, table |-> t] : t \in tablesOf}

\* well-formed measurements: the baseline and an alternative on two days of
\* one week and on a day two weeks later, and a second alternative
AnalysisRows ==
    << StoreRow(<<2025, 10, 6>>, BASELINE, <<"3", "0">>),
       StoreRow(<<2025, 10, 6>>, NO_DUPS, <<"2", "0">>),
       StoreRow(<<2025, 10, 8>>, BASELINE, <<"5", "0">>),
       StoreRow(<<2025, 10, 8>>, NO_DUPS, <<"2", "0">>),
       StoreRow(<<2025, 10, 20>>, BASELINE, <<"4", "0">>),
       StoreRow(<<2025, 10, 20>>, NO_DUPS, <<"4", "0">>),
       StoreRow(<<2025, 10, 8>>, NO_DUPS_PARALLEL, <<"2", "5">>) >>

\* well-formed measurements around the turn of two years: Monday 30
\* December 2024 and Wednesday 1 January 2025 are days of one ISO week,
\* Monday 29 December 2025 and Thursday 1 January 2026 of another
YearEndRows ==
    << StoreRow(<<2024, 12, 30>>, BASELINE, <<"1", "0">>),
       StoreRow(<<2025, 1, 1>>, BASELINE, <<"2", "0">>),
       StoreRow(<<2025, 12, 29>>, BASELINE, <<"4", "0">>),
       StoreRow(<<2026, 1, 1>>, NO_DUPS, <<"3", "0">>) >>

RECURSIVE Pick(_, _, _)
Pick(seq, S, i) ==
    IF i > Len(seq) THEN <<>>
    ELSE (IF i \in S THEN <<seq[i]>> ELSE <<>>) \o Pick(seq, S, i + 1)

\* the subsequences of seq of at most n elements
SubSeqsUpTo(seq, n) ==
    {Pick(seq, S, 1) : S \in {T \in SUBSET (1..Len(seq)) : Cardinality(T) <= n}}

SampleStore ==
    File(<< StoreRow(<<2025, 10, 8>>, BASELINE, <<"1", "0", "0">>),
            StoreRow(<<2025, 10, 8>>, NO_DUPS, <<"5", "0">>) >>)

\* a store with two baseline rows on one date and one row of an alternative
DuplicateStore ==
    File(<< StoreRow(<<2025, 10, 8>>, BASELINE, <<"1", "0", "0">>),
            StoreRow(<<2025, 10, 8>>, BASELINE, <<"0">>),
            StoreRow(<<2025, 10, 8>>, NO_DUPS, <<"2", "5">>),
            StoreRow(<<2025, 10, 9>>, NO_DUPS, <<"4", "0">>) >>)

-----------------------------------------------------------------------------
(* State machine *)

\* no run of the extractor yet
InitExtractor ==
    /\ extRuns = 0
    /\ extRc = -1
    /\ extOut = "none"

\* du_speed_analysis.main about to start (or not started: "idle")
InitAggregator(pc) ==
    /\ aggPc = pc
    /\ df = NoFrame
    /\ accel = NoAccel
    /\ figures = {}
    /\ rolling = NoRolling
    /\ weekly = NoWeekly
    /\ aggRc = -1
    /\ aggErr = ""

\* main of the report generator g about to start (or not started: "idle"),
\* with the file OUT_PATH as an earlier run left it
InitReporter(g, pc, old) ==
    /\ gen = g
    /\ repPc = pc
    /\ repDf = NoReportFrame
    /\ stats = NoStats
    /\ doc = <<>>
    /\ chartNo = 1
    /\ docFile = old
    /\ repRc = -1
    /\ repErr = ""

\* pyplot after import, no figure open, and the calls fns about to start
InitPyplot(fns) ==
    /\ callFn = fns
    /\ callPc = [t \in DOMAIN fns |-> "create"]
    /\ figs = <<>>
    /\ open = <<>>
    /\ fig = [t \in DOMAIN fns |-> 0]
    /\ saved = [t \in DOMAIN fns |-> NoImage]
    /\ closed = [t \in DOMAIN fns |-> 0]

Init ==
    /\ \E html \in Documents(SeqsUpTo(RawRowPool, MaxRows)),
          file \in {NoFile} \cup {File(r) : r \in SeqsUpTo(StoreRowPool, MaxStoreRows)}
                        \cup {File(r) : r \in SubSeqsUpTo(AnalysisRows, MaxSeriesRows)}
                        \cup {DuplicateStore} :
          \* every document with a store that is absent or holds other
          \* rows, and every store with an absent document
          /\ \/ file \in {NoFile, SampleStore}
             \/ ~html.exists
          /\ htmlExists = html.exists
          /\ nTables = html.tables
          /\ raw = html.table
          /\ store = file
          /\ prevStore = file
    /\ InitExtractor
    /\ InitAggregator("ensure_paths")
    /\ InitReporter(WORD, "idle", NoDoc)
    /\ InitPyplot(<<>>)

\* one run of extract_du_from_html.main
main_extract_du_from_html ==
    /\ extRuns < MaxExtRuns
    /\ LET res == ExtractMainResult(htmlExists, nTables, raw, store)
       IN  /\ store' = res.file
           /\ extRc' = res.rc
           /\ extOut' = res.out
    /\ prevStore' = store
    /\ extRuns' = extRuns + 1
    /\ UNCHANGED <<htmlExists, nTables, raw>>
    /\ UNCHANGED <<aggVars, repVars, pltVars>>

\* an except clause that records the failure and lets the step run again
Raise_retry(exc) ==
    /\ aggPc' = aggPc
    /\ aggRc' = 1
    /\ aggErr' = exc

\* du_speed_analysis.main: the except clause
Raise(exc) ==
    /\ aggPc' = "done"
    /\ aggRc' = 1
    /\ aggErr' = exc

\* ensure_paths()
ensure_paths ==
    /\ aggPc = "ensure_paths"
    /\ aggPc' = "read_data"
    /\ UNCHANGED <<df, accel, figures, rolling, weekly, aggRc, aggErr>>
    /\ UNCHANGED <<store, extVars, repVars, pltVars>>

\* df = read_data(DATA_PATH); df = df.sort_values("date")
read_data_step ==
    /\ aggPc = "read_data"
    /\ IF ~store.exists
       THEN Raise("FileNotFoundError") /\ UNCHANGED df
       ELSE /\ df' = SortByDate(read_data(store))
            /\ aggPc' = "plot_daily_bars"
            /\ UNCHANGED <<aggRc, aggErr>>
    /\ UNCHANGED <<accel, figures, rolling, weekly>>
    /\ UNCHANGED <<store, extVars, repVars, pltVars>>

\* a chart function: draws and saves its figure, or raises
Plot(at, file, next) ==
    /\ aggPc = at
    /\ \/ /\ figures' = figures \cup {file}
          /\ aggPc' = next
          /\ UNCHANGED <<aggRc, aggErr>>
       \/ /\ Raise("RenderingError")
          /\ UNCHANGED figures
    /\ UNCHANGED <<df, accel>>
    /\ UNCHANGED <<store, extVars, repVars, pltVars>>

\* plot_daily_bars(df)
plot_daily_bars ==
    /\ Plot("plot_daily_bars", "01_daily_bars.png", "plot_rolling_avg")
    /\ UNCHANGED <<rolling, weekly>>

\* plot_rolling_avg(df)
plot_rolling_avg ==
    /\ Plot("plot_rolling_avg", "02_rolling_avg.png", "compute_acceleration")
    /\ rolling' = RollingAvg(df, WINDOW)
    /\ UNCHANGED weekly

\* accel = compute_acceleration(df)
compute_acceleration_step ==
    /\ aggPc = "compute_acceleration"
    /\ LET res == compute_acceleration(df)
       IN  IF res.raises # ""
           THEN Raise(res.raises) /\ UNCHANGED accel
           ELSE /\ accel' = res
                /\ aggPc' = "plot_acceleration"
                /\ UNCHANGED <<aggRc, aggErr>>
    /\ UNCHANGED <<df, figures, rolling, weekly>>
    /\ UNCHANGED <<store, extVars, repVars, pltVars>>

\* plot_acceleration(accel)
plot_acceleration ==
    /\ Plot("plot_acceleration", "03_acceleration.png", "plot_weekly_acceleration")
    /\ UNCHANGED <<rolling, weekly>>

\* plot_weekly_acceleration(accel)
plot_weekly_acceleration ==
    /\ Plot("plot_weekly_acceleration", "04_weekly_acceleration.png", "return")
    /\ weekly' = Resample(accel)
    /\ UNCHANGED rolling

\* print(...); return 0
return_ok ==
    /\ aggPc = "return"
    /\ aggPc' = "done"
    /\ aggRc' = 0
    /\ UNCHANGED <<df, accel, figures, rolling, weekly, aggErr>>
    /\ UNCHANGED <<store, extVars, repVars, pltVars>>

\* an except clause that saves the document built so far
ReportRaise_save(exc) ==
    /\ repPc' = "done"
    /\ repRc' = 1
    /\ repErr' = exc
    /\ docFile' = [exists |-> TRUE, content |-> doc]

\* main of a report generator: the except clause prints and returns 1
ReportRaise(exc) ==
    /\ repPc' = "done"
    /\ repRc' = 1
    /\ repErr' = exc
    /\ UNCHANGED docFile

\* df = read_data()
report_read_data_step ==
    /\ repPc = "read_data"
    /\ LET res == report_read_data(store)
       IN  IF res.raises # ""
           THEN ReportRaise(res.raises) /\ UNCHANGED repDf
           ELSE /\ repDf' = res
                /\ repPc' = "calculate_statistics"
                /\ UNCHANGED <<repRc, repErr, docFile>>
    /\ UNCHANGED <<gen, stats, doc, chartNo>>
    /\ UNCHANGED <<store, extVars, aggVars, pltVars>>

\* stats = calculate_statistics(df)
calculate_statistics_step ==
    /\ repPc = "calculate_statistics"
    /\ LET res == calculate_statistics(gen, repDf)
       IN  IF res.raises # ""
           THEN ReportRaise(res.raises) /\ UNCHANGED stats
           ELSE /\ stats' = res
                /\ repPc' = "create_word_document"
                /\ UNCHANGED <<repRc, repErr, docFile>>
    /\ UNCHANGED <<gen, repDf, doc, chartNo>>
    /\ UNCHANGED <<store, extVars, aggVars, pltVars>>

\* create_word_document(df, stats) up to the first chart
begin_document ==
    /\ repPc = "create_word_document"
    /\ LET res == DocHead(gen, stats)
       IN  /\ doc' = res.blocks
           /\ IF res.raises # ""
              THEN ReportRaise(res.raises)
              ELSE /\ repPc' = "add_chart"
                   /\ UNCHANGED <<repRc, repErr, docFile>>
    /\ UNCHANGED <<gen, repDf, stats, chartNo>>
    /\ UNCHANGED <<store, extVars, aggVars, pltVars>>

\* the next chart of create_word_document: the call of the chart function
\* raises NameError when the module defines no such function, and may raise
\* while it renders; otherwise the picture and its caption are added
add_chart ==
    /\ repPc = "add_chart"
    /\ LET name == Charts(gen)[chartNo]
       IN  IF name \notin Defined(gen)
           THEN ReportRaise("NameError") /\ UNCHANGED <<doc, chartNo>>
           ELSE \/ /\ doc' = doc \o DocChart(name, repDf)
                   /\ chartNo' = chartNo + 1
                   /\ repPc' = IF chartNo = Len(Charts(gen)) THEN "finish_document"
                               ELSE "add_chart"
                   /\ UNCHANGED <<repRc, repErr, docFile>>
                \/ /\ ReportRaise("RenderingError")
                   /\ UNCHANGED <<doc, chartNo>>
    /\ UNCHANGED <<gen, repDf, stats>>
    /\ UNCHANGED <<store, extVars, aggVars, pltVars>>

\* create_word_document after the last chart: table and conclusions
finish_document ==
    /\ repPc = "finish_document"
    /\ LET res == DocTail(stats)
       IN  IF res.raises # ""
           THEN ReportRaise(res.raises) /\ UNCHANGED doc
           ELSE /\ doc' = doc \o res.blocks
                /\ repPc' = "save"
                /\ UNCHANGED <<repRc, repErr, docFile>>
    /\ UNCHANGED <<gen, repDf, stats, chartNo>>
    /\ UNCHANGED <<store, extVars, aggVars, pltVars>>

\* OUT_PATH.parent.mkdir(...); doc.save(OUT_PATH): writes the file, or
\* raises before it opened the file for writing
save_document ==
    /\ repPc = "save"
    /\ \/ /\ docFile' = [exists |-> TRUE, content |-> doc]
          /\ repPc' = "return"
          /\ UNCHANGED <<repRc, repErr>>
       \/ ReportRaise("PermissionError")
    /\ UNCHANGED <<gen, repDf, stats, doc, chartNo>>
    /\ UNCHANGED <<store, extVars, aggVars, pltVars>>

\* the prints after doc.save; return 0
report_return_ok ==
    /\ repPc = "return"
    /\ repPc' = "done"
    /\ repRc' = 0
    /\ UNCHANGED <<gen, repDf, stats, doc, chartNo, docFile, repErr>>
    /\ UNCHANGED <<store, extVars, aggVars, pltVars>>

\* fig, ax = plt.subplots(...) or plt.figure(...) of call t
create_figure(t) ==
    /\ callPc[t] = "create"
    /\ figs' = Append(figs, NewFigure(t))
    /\ open' = Append(open, Len(figs) + 1)
    /\ fig' = [fig EXCEPT ![t] = Len(figs) + 1]
    /\ callPc' = [callPc EXCEPT ![t] = "draw"]
    /\ UNCHANGED <<callFn, saved, closed>>
    /\ UNCHANGED <<store, extVars, aggVars, repVars>>

\* the drawing of call t: ax.bar(...), ax.set_*(...) act on the figure of
\* the call's own Axes; plt.bar, plt.xticks, plt.legend, plt.tight_layout
\* act on pyplot's current figure
draw(t) ==
    /\ callPc[t] = "draw"
    /\ LET own == IF UsesAxes(callFn[t])
                  THEN [figs EXCEPT ![fig[t]].drawn = @ \cup {<<t, "axes">>}]
                  ELSE figs
           cur == Gcf(own, open, t)
       IN  /\ figs' = [cur.figs EXCEPT ![cur.num].drawn = @ \cup {<<t, "pyplot">>}]
           /\ open' = cur.open
    /\ callPc' = [callPc EXCEPT ![t] = "savefig"]
    /\ UNCHANGED <<callFn, fig, saved, closed>>
    /\ UNCHANGED <<store, extVars, aggVars, repVars>>

\* plt.savefig(...) of call t: writes pyplot's current figure
savefig(t) ==
    /\ callPc[t] = "savefig"
    /\ LET cur == Gcf(figs, open, t)
       IN  /\ figs' = cur.figs
           /\ open' = cur.open
           /\ saved' = [saved EXCEPT ![t] = [num |-> cur.num, image |-> cur.figs[cur.num]]]
    /\ callPc' = [callPc EXCEPT ![t] = "close"]
    /\ UNCHANGED <<callFn, fig, closed>>
    /\ UNCHANGED <<store, extVars, aggVars, repVars>>

\* plt.close() that leaves the figure in pyplot's registry
close_keep(t) ==
    /\ callPc[t] = "close"
    /\ callPc' = [callPc EXCEPT ![t] = "returned"]
    /\ UNCHANGED <<callFn, figs, open, fig, saved, closed>>
    /\ UNCHANGED <<store, extVars, aggVars, repVars>>

\* plt.close() of call t: closes pyplot's current figure, if there is one
close(t) ==
    /\ callPc[t] = "close"
    /\ IF Len(open) = 0
       THEN UNCHANGED <<open, closed>>
       ELSE /\ open' = SubSeq(open, 1, Len(open) - 1)
            /\ closed' = [closed EXCEPT ![t] = open[Len(open)]]
    /\ callPc' = [callPc EXCEPT ![t] = "returned"]
    /\ UNCHANGED <<callFn, figs, fig, saved>>
    /\ UNCHANGED <<store, extVars, aggVars, repVars>>

\* call t raises: before its figure exists (the name is not defined, or the
\* data preparation fails), while it draws, or in plt.savefig; no chart
\* function has a try/finally, so a figure it created stays open
chart_raises(t) ==
    /\ callPc[t] \in {"create", "draw", "savefig"}
    /\ callPc' = [callPc EXCEPT ![t] = "raised"]
    /\ UNCHANGED <<callFn, figs, open, fig, saved, closed>>
    /\ UNCHANGED <<store, extVars, aggVars, repVars>>

Next ==
    \/ main_extract_du_from_html
    \/ ensure_paths
    \/ read_data_step
    \/ plot_daily_bars
    \/ plot_rolling_avg
    \/ compute_acceleration_step
    \/ plot_acceleration
    \/ plot_weekly_acceleration
    \/ return_ok

Spec == Init /\ [][Next]_vars

\* stores for the entry points that read the store
ReportStores ==
    {NoFile} \cup {File(r) : r \in SeqsUpTo(StoreRowPool, MaxStoreRows)}
             \cup {File(r) : r \in SubSeqsUpTo(AnalysisRows, MaxSeriesRows)}
             \cup {File(r) : r \in SubSeqsUpTo(YearEndRows, MaxSeriesRows)}

\* one of the three entry points that read the store is started
InitReport ==
    /\ \E file \in ReportStores :
          /\ store = file
          /\ prevStore = file
    /\ htmlExists = FALSE
    /\ nTables = 0
    /\ raw = <<>>
    /\ InitExtractor
    /\ \/ InitAggregator("ensure_paths") /\ InitReporter(WORD, "idle", NoDoc)
       \/ /\ InitAggregator("idle")
          /\ \E g \in {WORD, EXTENDED}, old \in {NoDoc, OldDoc} :
                InitReporter(g, "read_data", old)
    /\ InitPyplot(<<>>)

NextReport ==
    \/ ensure_paths
    \/ read_data_step
    \/ plot_daily_bars
    \/ plot_rolling_avg
    \/ compute_acceleration_step
    \/ plot_acceleration
    \/ plot_weekly_acceleration
    \/ return_ok
    \/ report_read_data_step
    \/ calculate_statistics_step
    \/ begin_document
    \/ add_chart
    \/ finish_document
    \/ save_document
    \/ report_return_ok

SpecReport == InitReport /\ [][NextReport]_vars

\* a document without the task table, and one with a single task
SmallDocuments ==
    Documents({<<>>,
               <<RawRow(Ts(8, 10, 2025, 10, 0, 0), Ts(8, 10, 2025, 10, 30, 0),
                        <<"3", "0">>)>>})

\* a store of the three scenarios, and one with a date that does not exist
SmallStores ==
    {NoFile, SampleStore,
     File(<<AnalysisRows[1], AnalysisRows[2], AnalysisRows[7]>>),
     File(<<StoreRow(<<2025, 13, 1>>, BASELINE, <<"1", "0">>)>>)}

\* the extractor, the aggregator and one report generator, all started
InitAll ==
    /\ \E html \in SmallDocuments, file \in SmallStores :
          /\ htmlExists = html.exists
          /\ nTables = html.tables
          /\ raw = html.table
          /\ store = file
          /\ prevStore = file
    /\ InitExtractor
    /\ InitAggregator("ensure_paths")
    /\ \E g \in {WORD, EXTENDED} : InitReporter(g, "read_data", NoDoc)
    /\ InitPyplot(<<>>)

NextAll ==
    \/ Next
    \/ report_read_data_step
    \/ calculate_statistics_step
    \/ begin_document
    \/ add_chart
    \/ finish_document
    \/ save_document
    \/ report_return_ok

\* the four entry points running in any interleaving
SpecAll == InitAll /\ [][NextAll]_vars

\* NCalls chart functions called at the same time, no entry point running
InitCharts ==
    /\ store = NoFile
    /\ prevStore = NoFile
    /\ htmlExists = FALSE
    /\ nTables = 0
    /\ raw = <<>>
    /\ InitExtractor
    /\ InitAggregator("idle")
    /\ InitReporter(EXTENDED, "idle", NoDoc)
    /\ \E fns \in [1..NCalls -> ChartFns] : InitPyplot(fns)

NextCharts ==
    \E t \in DOMAIN callFn :
        \/ create_figure(t)
        \/ draw(t)
        \/ savefig(t)
        \/ close(t)

\* the steps of the chart functions interleaved
SpecCharts == InitCharts /\ [][NextCharts]_vars

\* the chart calls of one entry point, in the order of its main
EntryCharts(g) == IF g = "du_speed_analysis" THEN AggregatorCharts ELSE Charts(g)

\* the chart functions an entry point can call
DefinedCharts(g) ==
    IF g = "du_speed_analysis" THEN Range(AggregatorCharts) ELSE Defined(g)

\* one entry point about to make its chart calls
InitSequential ==
    /\ store = NoFile
    /\ prevStore = NoFile
    /\ htmlExists = FALSE
    /\ nTables = 0
    /\ raw = <<>>
    /\ InitExtractor
    /\ InitAggregator("idle")
    /\ \E g \in {"du_speed_analysis", WORD, EXTENDED} :
          /\ InitReporter(g, "idle", NoDoc)
          /\ InitPyplot(EntryCharts(g))

\* the statements of main and create_word_document run one after another: a
\* chart function is called when the one before it has returned, and an
\* exception ends the run (the except clause of main)
NextSequential ==
    \E t \in DOMAIN callFn :
        /\ \A u \in 1..(t - 1) : callPc[u] = "returned"
        /\ \/ callFn[t] \in DefinedCharts(gen) /\ create_figure(t)
           \/ draw(t)
           \/ savefig(t)
           \/ close(t)
           \/ chart_raises(t)

\* the chart calls of one run of an entry point
SpecSequential == InitSequential /\ [][NextSequential]_vars

TypeOK ==
    /\ htmlExists \in BOOLEAN
    /\ extRuns \in 0..MaxExtRuns
    /\ extRc \in {-1, 0, 1}
    /\ aggRc \in {-1, 0, 1}

-----------------------------------------------------------------------------
(* Properties *)

\* the last extractor run completed and wrote the store
Extracted == extRuns > 0 /\ extRc = 0

ScenarioRank(label) ==
    IF label = BASELINE THEN 1 ELSE IF label = NO_DUPS THEN 2 ELSE 3

\* the calendar date written as DD.MM.YYYY in a timestamp cell
EndDate(r) == Date(r.datetime_end[3], r.datetime_end[2], r.datetime_end[1])

\* the durations of raw rows, as numbers
Durations(rows) == [i \in 1..Len(rows) |-> [minutes |-> RowMinutes(rows[i])]]

\* C1: every date of an extracted store carries the one label of its range:
\* up to 2025-10-08 the baseline, 2025-10-09 .. 2025-10-16 'no duplicates',
\* from 2025-10-17 'no duplicates + parallel', and a later date never
\* carries an earlier scenario.
C1_ScenarioPartition ==
    Extracted =>
        /\ \A r \in Range(store.rows) :
              LET y == r.date[1]
                  m == r.date[2]
                  d == r.date[3]
                  upTo8 == y < 2025 \/ (y = 2025 /\ (m < 10 \/ (m = 10 /\ d <= 8)))
                  upTo16 == y < 2025 \/ (y = 2025 /\ (m < 10 \/ (m = 10 /\ d <= 16)))
              IN  /\ r.scenario \in {BASELINE, NO_DUPS, NO_DUPS_PARALLEL}
                  /\ r.scenario = BASELINE <=> upTo8
                  /\ r.scenario = NO_DUPS <=> (~upTo8 /\ upTo16)
                  /\ r.scenario = NO_DUPS_PARALLEL <=> ~upTo16
        /\ \A a, b \in Range(store.rows) :
              DateLE(ToDate(a.date), ToDate(b.date))
                  => ScenarioRank(a.scenario) <= ScenarioRank(b.scenario)

\* C1 witness: a store extracted from tasks on both sides of the first
\* boundary (8 and 9 October 2025)
C1_Witness ==
    /\ Extracted
    /\ \E a, b \in Range(store.rows) :
          /\ a.date = <<2025, 10, 8>> /\ a.scenario = BASELINE
          /\ b.date = <<2025, 10, 9>> /\ b.scenario = NO_DUPS

\* C2: an extracted store has exactly one row per end date of a surviving
\* task row, with the sum of the durations of the rows ending on that date
\* and the scenario of that date; the total of the store is the total of
\* the surviving rows.
C2_DailyReduction ==
    Extracted =>
        LET surv == Surviving(raw)
            days == {EndDate(surv[i]) : i \in 1..Len(surv)}
            rows == store.rows
        IN  /\ Len(rows) = Cardinality(days)
            /\ {ToDate(rows[i].date) : i \in 1..Len(rows)} = days
            /\ \A i \in 1..Len(rows) :
                  /\ ToNumeric(rows[i].minutes) =
                        SumMinutes(Durations(SelectSeq(surv,
                            LAMBDA r : EndDate(r) = ToDate(rows[i].date))))
                  /\ rows[i].scenario = assign_scenario(ToDate(rows[i].date))
            /\ \A i, j \in 1..Len(rows) :
                  (rows[i].date = rows[j].date /\ rows[i].scenario = rows[j].scenario)
                      => i = j
            /\ SumMinutes([i \in 1..Len(rows) |-> [minutes |-> ToNumeric(rows[i].minutes)]])
                  = SumMinutes(Durations(surv))

\* C2 witness: a task that starts on 8 October and ends on 9 October is
\* the only surviving row, and the store holds its duration on 9 October
C2_Witness ==
    /\ Extracted
    /\ Len(Surviving(raw)) = 1
    /\ Surviving(raw)[1].datetime_start[1] = 8
    /\ Len(store.rows) = 1
    /\ store.rows[1].date = <<2025, 10, 9>>
    /\ ToNumeric(store.rows[1].minutes) = <<12, 1>>

\* the whitespace characters a duration may be written with
Whitespace == {SPACE, NBSP}

\* a raw row the filter is to keep: a duration that is present, is no header
\* marker and is numeric once its whitespace is removed, and an end
\* timestamp that parses
Countable(r) ==
    /\ r.minutes # <<>>
    /\ ~StrContains(r.minutes, MARK)
    /\ ToNumeric(SelectSeq(r.minutes, LAMBDA c : c \notin Whitespace)) # NaN
    /\ ToDatetime(r.datetime_end) # NaN

CountableValue(r) == ToNumeric(SelectSeq(r.minutes, LAMBDA c : c \notin Whitespace))

\* C3: in an extracted store a row that is not countable contributes
\* nothing, a date without a countable row is absent, and every countable
\* row, also one written with embedded whitespace, counts with its value.
C3_RowFiltering ==
    Extracted =>
        LET keep == SelectSeq(raw, Countable)
            days == {EndDate(keep[i]) : i \in 1..Len(keep)}
            rows == store.rows
        IN  /\ {ToDate(rows[i].date) : i \in 1..Len(rows)} = days
            /\ \A i \in 1..Len(rows) :
                  LET same == SelectSeq(keep, LAMBDA r : EndDate(r) = ToDate(rows[i].date))
                  IN  ToNumeric(rows[i].minutes) =
                         SumMinutes([k \in 1..Len(same) |->
                                        [minutes |-> CountableValue(same[k])]])

\* C6: a run on a task table without a surviving row does not succeed
C6_EmptyResultFails ==
    (extRuns > 0 /\ htmlExists /\ nTables >= 4 /\ Len(Surviving(raw)) = 0)
        => extRc # 0 /\ store = prevStore

\* C7: a run without the source document returns 1 with a diagnostic and
\* leaves the store as it found it.
C7_InputMissing ==
    (extRuns > 0 /\ ~htmlExists)
        => extRc = 1 /\ extOut = "error" /\ store = prevStore

\* C7 witness: a run without the document, with a store in place
C7_Witness ==
    /\ extRuns > 0
    /\ ~htmlExists
    /\ extRc = 1
    /\ store = SampleStore

\* C8: after a successful run the store holds exactly the rows of this
\* run's extract() and none of the other rows it held before.
C8_Overwrite ==
    Extracted =>
        LET out == ToCsv(extract(raw))
        IN  /\ store.exists
            /\ store.rows = out
            /\ \A r \in Range(prevStore.rows) : r \notin Range(out) => r \notin Range(store.rows)

\* C8 witness: a successful run over a store that held other rows
C8_Witness ==
    /\ Extracted
    /\ Len(store.rows) > 0
    /\ prevStore = SampleStore
    /\ Range(store.rows) \cap Range(prevStore.rows) = {}

\* C9: a successful run that follows a successful run on the same raw
\* input leaves the store as it is, rows and order.
C9_Idempotence ==
    [][(extRuns' = extRuns + 1 /\ extRc = 0 /\ extRc' = 0) => store' = store]_vars

\* C9 witness: two successful runs over a table with two days
C9_Witness ==
    /\ extRuns = 2
    /\ extRc = 0
    /\ prevStore = store
    /\ Len(store.rows) = 2

-----------------------------------------------------------------------------
(* Properties of du_speed_analysis.py *)

\* a store line the load is to keep
ValidLine(r) ==
    /\ Len(r.date) = 3 /\ ValidDate(r.date[1], r.date[2], r.date[3])
    /\ r.scenario # ""
    /\ r.minutes # <<>>
    /\ ToNumeric(r.minutes) # NaN

LineValue(r) ==
    [date |-> Date(r.date[1], r.date[2], r.date[3]),
     scenario |-> r.scenario,
     minutes |-> ToNumeric(r.minutes)]

Count(seq, v) == Cardinality({i \in 1..Len(seq) : seq[i] = v})

\* C10: the load step fails with FileNotFoundError when the store file is
\* absent, and otherwise loads every valid line unchanged, as often as the
\* store holds it, and nothing else.
C10_TolerantLoad ==
    [][(aggPc = "read_data" /\ aggPc' # "read_data") =>
          IF ~store.exists
          THEN aggPc' = "done" /\ aggRc' = 1 /\ aggErr' = "FileNotFoundError"
          ELSE LET good == SelectSeq(store.rows, ValidLine)
                   vals == [i \in 1..Len(good) |-> LineValue(good[i])]
               IN  /\ aggPc' = "plot_daily_bars"
                   /\ Len(df') = Len(vals)
                   /\ \A v \in Range(vals) : Count(df', v) = Count(vals, v)]_vars

\* C10 witness: a load that kept one line of a store and dropped the other
C10_Witness ==
    /\ aggPc = "plot_daily_bars"
    /\ extRuns = 0
    /\ Len(store.rows) = 2
    /\ Len(df) = 1

RowsOf(frame, date, scenario) ==
    SelectSeq(frame, LAMBDA r : r.date = date /\ r.scenario = scenario)

\* the sample of the acceleration frame for a date and a scenario
Sample(date, scenario) ==
    IF \E i \in 1..Len(accel.rows) : accel.rows[i].date = date
    THEN (CHOOSE a \in Range(accel.rows) : a.date = date).ratio[scenario]
    ELSE NaN

ReachedAcceleration ==
    \/ aggPc \in {"plot_acceleration", "plot_weekly_acceleration", "return"}
    \/ aggPc = "done" /\ "02_rolling_avg.png" \in figures

\* C5: when the loaded rows lack the baseline, or hold the baseline only,
\* compute_acceleration raises, main returns 1 and the acceleration and
\* weekly-acceleration figures are not written.
C5_MissingBaseline ==
    (ReachedAcceleration /\ (BASELINE \notin PivotColumns(df) \/ PivotColumns(df) = {BASELINE}))
        => /\ aggPc = "done"
           /\ aggRc = 1
           /\ aggErr \in {"ValueError: baseline required",
                          "ValueError: no alternative scenarios"}
           /\ accel = NoAccel
           /\ figures \cap {"03_acceleration.png", "04_weekly_acceleration.png"} = {}

\* C5 witness: a store with baseline rows only stops the run in
\* compute_acceleration
C5_Witness ==
    /\ aggPc = "done"
    /\ aggRc = 1
    /\ aggErr = "ValueError: no alternative scenarios"
    /\ Len(df) > 0
    /\ figures = {"01_daily_bars.png", "02_rolling_avg.png"}

\* the loaded rows of one scenario, in date order
SeriesOf(scenario) == SelectSeq(df, LAMBDA r : r.scenario = scenario)

\* the rows of one scenario in the frame of a report generator, in date order
ReportSeriesOf(scenario) ==
    SortByDate(SelectSeq(repDf.rows, LAMBDA r : r.scenario = scenario))

\* the observations of a series in the window ending at position k: the
\* last 7 rows of the series that have a duration
InWindow(series, k) == {j \in 1..k : j > k - 7 /\ series[j].minutes # NaN}

\* a rolling series is undefined while its window holds fewer than 3
\* observations of the series and is their mean from then on
RollingAgrees(roll, series) ==
    /\ Len(roll) = Len(series)
    /\ \A k \in 1..Len(series) :
          LET n == Cardinality(InWindow(series, k))
              obs == SelectSeq([j \in 1..k |-> IF j \in InWindow(series, k)
                                               THEN series[j].minutes ELSE NaN],
                               LAMBDA x : x # NaN)
              sum == RSum(obs)
              x == roll[k].value
          IN  /\ roll[k].date = series[k].date
              /\ x = NaN <=> n < 3
              /\ x # NaN => x[1] * (sum[2] * n) = sum[1] * x[2]
    /\ \A k \in 1..Len(series) : k < 3 => roll[k].value = NaN
    /\ (Len(series) >= 3 /\ \A k \in 1..3 : series[k].minutes # NaN)
          => roll[3].value # NaN

DefinedSamples(week, scenario) ==
    SelectSeq(accel.rows, LAMBDA a : WeekOf(a.date) = week /\ a.ratio[scenario] # NaN)

\* C12: the weekly frame has one row for every calendar week from the week
\* of the first acceleration sample to the week of the last; its value for
\* a scenario is the mean of that week's defined samples of the scenario,
\* and is undefined when the week has none.
C12_WeeklyResample ==
    weekly # NoWeekly =>
        LET first == WeekOf(accel.rows[1].date)
            last == WeekOf(accel.rows[Len(accel.rows)].date)
        IN  /\ Len(weekly) = last - first + 1
            /\ \A k \in 1..Len(weekly) :
                  /\ weekly[k].week = first + k - 1
                  /\ DOMAIN weekly[k].mean = accel.columns
                  /\ \A c \in accel.columns :
                        LET defined == DefinedSamples(first + k - 1, c)
                            sum == RSum([j \in 1..Len(defined) |-> defined[j].ratio[c]])
                            x == weekly[k].mean[c]
                        IN  IF Len(defined) = 0 THEN x = NaN
                            ELSE /\ x # NaN
                                 /\ x[1] * (sum[2] * Len(defined)) = sum[1] * x[2]

\* C12 witness: samples 1.5 and 2.5 of one week resample to 2
C12_Witness ==
    /\ Len(weekly) = 1
    /\ accel.columns = {NO_DUPS}
    /\ weekly[1].mean[NO_DUPS] = <<2, 1>>
    /\ Len(accel.rows) = 2
    /\ accel.rows[1].ratio[NO_DUPS] = <<3, 2>>
    /\ accel.rows[2].ratio[NO_DUPS] = <<5, 2>>

AllFigures ==
    {"01_daily_bars.png", "02_rolling_avg.png", "03_acceleration.png",
     "04_weekly_acceleration.png"}

\* C17: a finished run of du_speed_analysis.main has written all four figure
\* files or none of them.
C17_AllOrNothing ==
    aggPc = "done" => figures \in {{}, AllFigures}

StepOrder ==
    <<"ensure_paths", "read_data", "plot_daily_bars", "plot_rolling_avg",
      "compute_acceleration", "plot_acceleration", "plot_weekly_acceleration",
      "return">>

\* C19: du_speed_analysis.main moves from each step to the next one of the
\* fixed order or, when the step raises, straight to its end with return
\* code 1; after the end nothing of the run changes, so no later step runs
\* and no step is retried.
C19_FailFast ==
    [][/\ aggPc' # aggPc =>
            \/ \E i \in 1..(Len(StepOrder) - 1) :
                  /\ aggPc = StepOrder[i]
                  /\ aggPc' = StepOrder[i + 1]
                  /\ aggErr' = ""
                  /\ aggRc' = -1
            \/ /\ aggPc = "return"
               /\ aggPc' = "done"
               /\ aggErr' = ""
               /\ aggRc' = 0
            \/ /\ aggPc # "return"
               /\ aggPc' = "done"
               /\ aggErr' # ""
               /\ aggRc' = 1
       /\ aggErr' # "" => aggPc' = "done" /\ aggRc' = 1
       /\ aggPc = aggPc' => UNCHANGED aggVars
       /\ aggPc = "done" => UNCHANGED aggVars]_vars

\* C19 witness: plot_rolling_avg raised: the run ended with return code 1
\* and neither the acceleration nor a later figure was produced
C19_Witness ==
    /\ aggPc = "done"
    /\ aggRc = 1
    /\ aggErr = "RenderingError"
    /\ figures = {"01_daily_bars.png"}
    /\ Len(df) > 0
    /\ accel = NoAccel
    /\ weekly = NoWeekly

-----------------------------------------------------------------------------
(* Properties of the report generators *)

\* the chart functions whose picture the document holds, in order
Pictures(blocks) ==
    LET pics == SelectSeq(blocks, LAMBDA b : b.kind = "picture")
    IN  [i \in 1..Len(pics) |-> pics[i].chart]

Kinds(blocks) == [i \in 1..Len(blocks) |-> blocks[i].kind]

\* C13: the main of each entry point has returned 0 only after all its
\* steps completed, and has returned 1 as soon as a step raised; a main that
\* has ended has returned 0 or 1.
C13_ExitCodes ==
    /\ extRuns > 0 =>
          /\ extRc \in {0, 1}
          /\ extRc = 0 <=> (htmlExists /\ nTables >= 4)
          /\ extRc = 0 => (extOut = "summary" /\ store.exists)
          /\ extRc = 1 => extOut = "error"
    /\ aggPc = "done" => aggRc \in {0, 1}
    /\ aggRc = 0 => (aggPc = "done" /\ aggErr = "" /\ figures = AllFigures)
    /\ aggErr # "" <=> aggRc = 1
    /\ aggRc = 1 => aggPc = "done"
    /\ repPc = "done" => repRc \in {0, 1}
    /\ repRc = 0 => /\ repPc = "done"
                    /\ repErr = ""
                    /\ Pictures(doc) = Charts(gen)
                    /\ docFile = [exists |-> TRUE, content |-> doc]
    /\ repErr # "" <=> repRc = 1
    /\ repRc = 1 => repPc = "done"

\* C13 witness: the extractor has returned 0, the aggregator 1 and the
\* extended report generator 0
C13_Witness ==
    /\ extRuns > 0 /\ extRc = 0
    /\ aggPc = "done" /\ aggRc = 1
    /\ gen = EXTENDED /\ repPc = "done" /\ repRc = 0

\* the rows of the report frame that carry a scenario
RowsWith(scenario) == {i \in 1..Len(repDf.rows) : repDf.rows[i].scenario = scenario}

\* C14: calculate_statistics of the extended report gives every scenario of
\* the data its number of rows as count and the sum of its minutes as total;
\* improvement_pct = (base_mean - mean) / base_mean * 100 and
\* total_time_saved = (base_mean - mean) * count are present for a scenario
\* exactly when it is not the baseline and the baseline is in the data.
C14_SummaryStatistics ==
    (gen = EXTENDED /\ stats # NoStats) =>
        LET present == {repDf.rows[i].scenario : i \in 1..Len(repDf.rows)} \ {""}
        IN  \A s \in present :
              LET e == stats.by[s]
                  mine == SelectSeq(repDf.rows, LAMBDA r : r.scenario = s /\ r.minutes # NaN)
                  sum == RSum([i \in 1..Len(mine) |-> mine[i].minutes])
                  compared == BASELINE \in present /\ s # BASELINE
              IN  /\ e.count = Cardinality(RowsWith(s))
                  /\ e.total = sum
                  /\ ("improvement_pct" \in DOMAIN e) <=> compared
                  /\ ("total_time_saved" \in DOMAIN e) <=> compared
                  /\ compared =>
                        LET bm == stats.by[BASELINE].mean
                            m == e.mean
                        IN  (bm # NaN /\ m # NaN /\ bm[1] # 0) =>
                              LET diff == bm[1] * m[2] - m[1] * bm[2]
                              IN  /\ e.improvement_pct[1] * (m[2] * bm[1])
                                        = e.improvement_pct[2] * (100 * diff)
                                  /\ e.total_time_saved[1] * (bm[2] * m[2])
                                        = e.total_time_saved[2] * (e.count * diff)

\* C14 witness: baseline 30 and an alternative 20: a third less, 10 minutes
\* saved on its one day, and no such entries for the baseline
C14_Witness ==
    /\ gen = EXTENDED
    /\ stats.keys = <<BASELINE, NO_DUPS>>
    /\ stats.by[BASELINE] = [count |-> 1, mean |-> <<30, 1>>, total |-> <<30, 1>>]
    /\ stats.by[NO_DUPS].count = 1
    /\ stats.by[NO_DUPS].improvement_pct = <<100, 3>>
    /\ stats.by[NO_DUPS].total_time_saved = <<10, 1>>

\* a store of valid lines that holds each of the three scenarios
ThreeScenarioStore ==
    /\ store.exists
    /\ \A i \in 1..Len(store.rows) : ValidLine(store.rows[i])
    /\ {BASELINE, NO_DUPS, NO_DUPS_PARALLEL}
          \subseteq {store.rows[i].scenario : i \in 1..Len(store.rows)}

\* C15: on a store of the three scenarios, a run of generate_word_report.main
\* in which no chart fails to render and the file can be written has built
\* the document with its five charts, saved it and returned 0.
C15_WordReportBuilt ==
    (gen = WORD /\ repPc = "done" /\ ThreeScenarioStore
       /\ repErr \notin {"RenderingError", "PermissionError"})
        => /\ repRc = 0
           /\ Pictures(doc) = Charts(WORD)
           /\ docFile = [exists |-> TRUE, content |-> doc]

RECURSIVE Repeat(_, _)
Repeat(seq, n) == IF n = 0 THEN <<>> ELSE seq \o Repeat(seq, n - 1)

\* C16: a document a report generator has built consists of the title
\* block, the summary, one narrative block per scenario, a picture followed
\* by its caption for every chart, the table with one row per scenario and
\* the conclusions, in this order.
C16_AssemblyOrder ==
    repPc \in {"save", "return"} =>
        /\ Kinds(doc) = <<"title", "summary">>
                        \o Repeat(<<"narrative">>, Len(stats.keys))
                        \o Repeat(<<"picture", "caption">>, Len(Charts(gen)))
                        \o <<"table", "conclusions">>
        /\ Pictures(doc) = Charts(gen)
        /\ \A i \in 1..Len(doc) : doc[i].kind = "table" => doc[i].rows = stats.keys

\* C18: the file OUT_PATH changes only in doc.save, after the picture of
\* every chart is in the document, and main only returns after it; a run in
\* which read_data, calculate_statistics or the building of the document
\* raised ends with the file as it found it.
C18_SaveLast ==
    [][/\ docFile' # docFile =>
            /\ repPc = "save"
            /\ repPc' = "return"
            /\ Pictures(doc) = Charts(gen)
            /\ docFile' = [exists |-> TRUE, content |-> doc]
       /\ repErr' # "" =>
            /\ docFile' = docFile
            /\ docFile' \in {NoDoc, OldDoc}
       /\ repPc = "return" => (repPc' = "done" /\ repRc' = 0 /\ docFile' = docFile)]_vars

\* C18 witness: the eleventh chart of the extended report raised: ten
\* pictures are in the document and the earlier report file is untouched
C18_Witness ==
    /\ gen = EXTENDED
    /\ repPc = "done"
    /\ repErr = "RenderingError"
    /\ Len(Pictures(doc)) = 10
    /\ docFile = OldDoc

-----------------------------------------------------------------------------
(* Properties of the chart functions *)

\* C20: when the steps of chart functions are interleaved, every call saves
\* the image of the figure it created, with what this call drew on it and
\* nothing else, and closes the figure it created and no other.
C20_IndependentCharts ==
    \A t \in DOMAIN callFn :
        /\ saved[t] # NoImage =>
              /\ saved[t].num = fig[t]
              /\ saved[t].image = [owner |-> t, drawn |-> Artists(t, callFn[t])]
        /\ closed[t] # 0 => closed[t] = fig[t]
        /\ callPc[t] = "returned" => closed[t] = fig[t]

\* the figures call t created, by plt.subplots, plt.figure or plt.gcf
FiguresOf(t) == {k \in 1..Len(figs) : figs[k].owner = t}

\* C21: in the sequential run of an entry point at most one figure is open
\* at any time, no figure is open when a chart function is called, a chart
\* function that has returned acquired one figure, saved it and closed it,
\* and after the last chart has returned no figure is open.
C21_FigureLifecycle ==
    /\ Len(open) <= 1
    /\ \A t \in DOMAIN callFn :
          /\ ((\A u \in 1..(t - 1) : callPc[u] = "returned") /\ callPc[t] = "create")
                => open = <<>>
          /\ callPc[t] = "returned" =>
                /\ FiguresOf(t) = {fig[t]}
                /\ saved[t].num = fig[t]
                /\ closed[t] = fig[t]
    /\ (\A t \in DOMAIN callFn : callPc[t] = "returned") => open = <<>>

\* C21 witness: the twenty charts of the extended report have all returned
C21_Witness ==
    /\ gen = EXTENDED
    /\ Len(callFn) = 20
    /\ \A t \in DOMAIN callFn : callPc[t] = "returned"
    /\ Len(figs) = 20

-----------------------------------------------------------------------------
(* Extractor and aggregator composed *)

\* the aggregator holds the rows of the store the extractor wrote, and
\* compute_acceleration has returned
AcceleratedExtract ==
    /\ Extracted
    /\ df = SortByDate(read_data(store))
    /\ accel.columns # {}

\* C22: in a store the extractor wrote every date carries one scenario, so
\* on every date the baseline value or every alternative value is missing;
\* compute_acceleration on such a store with the baseline and another
\* scenario returns no sample at all, and the weekly acceleration is empty.
C22_ExtractedStoreNoSamples ==
    /\ Extracted =>
          \A a, b \in Range(store.rows) : a.date = b.date => a.scenario = b.scenario
    /\ AcceleratedExtract =>
          /\ \A i \in 1..Len(df) :
                \/ PivotCell(df, df[i].date, BASELINE) = NaN
                \/ \A c \in accel.columns : PivotCell(df, df[i].date, c) = NaN
          /\ accel.rows = <<>>
          /\ "04_weekly_acceleration.png" \in figures => weekly = <<>>

\* C22 witness: the extractor wrote a baseline day and a day of another
\* scenario, and the aggregator computed the acceleration and the weekly
\* chart from them
C22_Witness ==
    /\ AcceleratedExtract
    /\ {BASELINE, NO_DUPS} \subseteq PivotColumns(df)
    /\ "04_weekly_acceleration.png" \in figures
    /\ aggRc = 0

-----------------------------------------------------------------------------
(* Failure of the extractor *)

\* C23: a run of the extractor main that fails leaves the store file as it
\* found it, and the store file changes only in a run in which extract()
\* returned (the document exists and has its fourth table) and that
\* returns 0.
C23_FailedExtractKeepsStore ==
    [][(extRuns' = extRuns + 1) =>
          /\ extRc' = 1 => store' = store
          /\ (~htmlExists \/ nTables < 4) => (extRc' = 1 /\ store' = store)
          /\ store' # store => (extRc' = 0 /\ htmlExists /\ nTables >= 4)]_vars

\* C23 witness: the document exists but has no fourth table (tables[3]
\* raises IndexError), and the store still holds the rows it held before
C23_Witness ==
    /\ extRuns > 0
    /\ htmlExists
    /\ nTables < 4
    /\ extRc = 1
    /\ store = SampleStore
    /\ prevStore = SampleStore

-----------------------------------------------------------------------------
(* The rolling window on the calendar *)

\* the observations of a date-ordered series dated within the 7 calendar
\* days that end at the date of position k
InDateWindow(series, k) ==
    {j \in 1..k : /\ Ordinal(series[k].date) - Ordinal(series[j].date) <= 6
                  /\ series[j].minutes # NaN}

\* C24: the rolling mean of a scenario at a date d, where it is defined, is
\* the mean of that scenario's observations dated d-6 .. d, and of no
\* older observation.
C24_TrailingDateWindow ==
    rolling # NoRolling =>
        \A s \in DOMAIN rolling :
            \A k \in 1..Len(rolling[s]) :
                LET series == SeriesOf(s)
                    obs == SelectSeq([j \in 1..k |-> IF j \in InDateWindow(series, k)
                                                     THEN series[j].minutes ELSE NaN],
                                     LAMBDA x : x # NaN)
                IN  rolling[s][k].value # NaN => rolling[s][k].value = Mean(obs)

-----------------------------------------------------------------------------
(* The pivot of compute_acceleration *)

\* the rows of df with a date and a scenario
CellRows(date, scenario) ==
    SelectSeq(df, LAMBDA r : r.date = date /\ r.scenario = scenario)

\* C25: the pivot of the loaded rows has one row per distinct date and one
\* column per distinct scenario; a cell is undefined when no row has its
\* date and scenario, the value of the row when there is one, and the
\* arithmetic mean of the rows' minutes when there are several.
C25_PivotMean ==
    LET dates == {df[i].date : i \in 1..Len(df)}
        scenarios == {df[i].scenario : i \in 1..Len(df)}
    IN  /\ Len(PivotIndex(df)) = Cardinality(dates)
        /\ Range(PivotIndex(df)) = dates
        /\ PivotColumns(df) = scenarios
        /\ \A d \in dates, c \in scenarios :
              LET sel == CellRows(d, c)
                  n == Len(sel)
                  sum == RSum([j \in 1..n |-> sel[j].minutes])
                  cell == PivotCell(df, d, c)
              IN  /\ n = 0 <=> cell = NaN
                  /\ n = 1 => cell = sel[1].minutes
                  /\ n >= 1 => cell[1] * sum[2] * n = sum[1] * cell[2]
        /\ \A k \in 1..Len(accel.rows) :
              /\ accel.rows[k].date \in dates
              /\ \A c \in accel.columns :
                    accel.rows[k].ratio[c] # NaN =>
                        accel.rows[k].ratio[c] =
                            FloatDiv(PivotCell(df, accel.rows[k].date, BASELINE),
                                     PivotCell(df, accel.rows[k].date, c))

\* C25 witness: two baseline rows of 100 and 0 minutes on one date are
\* averaged to 50, the alternative has 25 on that date and the acceleration
\* is 2; on the next date the baseline cell is empty and there is no sample
C25_Witness ==
    /\ store = DuplicateStore
    /\ Len(df) = 4
    /\ accel.columns = {NO_DUPS}
    /\ Len(accel.rows) = 1
    /\ accel.rows[1].ratio[NO_DUPS] = <<2, 1>>

-----------------------------------------------------------------------------
(* The dates compute_acceleration keeps *)

\* the ratio of a scenario on a date is defined: both the baseline and the
\* scenario have rows on the date and the scenario's minutes are not 0
RatioDefined(date, scenario) ==
    /\ Len(RowsOf(df, date, BASELINE)) > 0
    /\ Len(RowsOf(df, date, scenario)) > 0
    /\ SumMinutes(RowsOf(df, date, scenario))[1] # 0

\* the dates of the acceleration frame
KeptDates == {accel.rows[k].date : k \in 1..Len(accel.rows)}

\* C26: a date of the loaded rows is in the acceleration frame exactly when
\* at least one non-baseline scenario has a defined ratio on it; the frame
\* has one row per kept date, in date order, and on a kept date a scenario
\* whose ratio is not defined is undefined, not 0 and not 1.
C26_DropAllUndefined ==
    accel.columns # {} =>
        /\ \A i \in 1..Len(df) :
              df[i].date \in KeptDates <=>
                  \E c \in accel.columns : RatioDefined(df[i].date, c)
        /\ KeptDates \subseteq {df[i].date : i \in 1..Len(df)}
        /\ Cardinality(KeptDates) = Len(accel.rows)
        /\ \A j, k \in 1..Len(accel.rows) :
              j < k => DateLE(accel.rows[j].date, accel.rows[k].date)
        /\ \A k \in 1..Len(accel.rows) : \A c \in accel.columns :
              RatioDefined(accel.rows[k].date, c) <=> accel.rows[k].ratio[c] # NaN

\* C26 witness: two alternatives; a kept date on which one of them has a
\* ratio and the other has none, and a date that was dropped
C26_Witness ==
    /\ accel.columns = {NO_DUPS, NO_DUPS_PARALLEL}
    /\ \E k \in 1..Len(accel.rows) :
          /\ accel.rows[k].ratio[NO_DUPS] # NaN
          /\ accel.rows[k].ratio[NO_DUPS_PARALLEL] = NaN
    /\ \E i \in 1..Len(df) : df[i].date \notin KeptDates

-----------------------------------------------------------------------------
(* The narrative of the report *)

\* C27: the period printed in the narrative block of a scenario is the
\* earliest and the latest date of that scenario's rows in the frame, and
\* the day count is the number of these rows.
C27_NarrativeFromData ==
    \A i \in 1..Len(doc) :
        doc[i].kind = "narrative" =>
            LET rows == RowsWith(doc[i].scenario)
            IN  /\ doc[i].days = Cardinality(rows)
                /\ \E j \in rows : repDf.rows[j].date = doc[i].period[1]
                /\ \E j \in rows : repDf.rows[j].date = doc[i].period[2]
                /\ \A j \in rows :
                      /\ DateLE(doc[i].period[1], repDf.rows[j].date)
                      /\ DateLE(repDf.rows[j].date, doc[i].period[2])

-----------------------------------------------------------------------------
(* Unparsable rows in the report generators *)

\* a line of the store whose date and minutes can be parsed (an empty
\* minutes cell is a missing value, not an unparsable one)
Parsable(r) ==
    /\ ToDate(r.date) # NaN
    /\ r.minutes = <<>> \/ ToNumeric(r.minutes) # NaN

\* the frame of the parsable lines of the store
ParsableRows ==
    LET sel == SelectSeq(store.rows, Parsable)
    IN  [i \in 1..Len(sel) |->
            [date |-> ToDate(sel[i].date),
             scenario |-> sel[i].scenario,
             minutes |-> ToNumeric(sel[i].minutes)]]

\* C28: once read_data of a report generator has run on an existing store,
\* the frame holds the parsable lines of the store and no other, and the
\* run was not ended by the exception an unparsable date raises in
\* read_data or an unparsable duration raises in calculate_statistics.
C28_ReporterFiltersRows ==
    (store.exists /\ repPc \notin {"idle", "read_data"}) =>
        /\ repErr # "ValueError"
        /\ ~(repErr = "TypeError" /\ stats = NoStats)
        /\ repDf.rows = ParsableRows

-----------------------------------------------------------------------------
(* The weekly heat-map *)

\* C29: the dates averaged into one row of the weekly heat-map lie in one
\* calendar week (Monday to Sunday), also at the turn of a year.
C29_HeatmapWeeks ==
    \A i \in 1..Len(doc) :
        doc[i].kind = "picture" =>
            \A l \in DOMAIN doc[i].cells :
                \A a, b \in doc[i].cells[l].dates : WeekOf(a) = WeekOf(b)

-----------------------------------------------------------------------------
(* The monthly totals *)

\* the year and month of the rows of the frame that carry a month label
MonthOf(label) ==
    CHOOSE ym \in {<<repDf.rows[i].date.year, repDf.rows[i].date.month>> :
                      i \in 1..Len(repDf.rows)} :
        MonthLabel(Date(ym[1], ym[2], 1)) = label

\* C30: the months of the monthly chart are in chronological order, and
\* the bar of a month and a scenario is the sum of the scenario's minutes
\* in that month, 0 when the scenario has no row in the month.
C30_MonthlyChart ==
    \A i \in 1..Len(doc) :
        (doc[i].kind = "picture" /\ doc[i].chart = "chart_11_monthly_comparison") =>
            LET months == doc[i].monthly.months
                bars == doc[i].monthly.bars
            IN  /\ \A j, k \in 1..Len(months) :
                      j < k => \/ MonthOf(months[j])[1] < MonthOf(months[k])[1]
                               \/ /\ MonthOf(months[j])[1] = MonthOf(months[k])[1]
                                  /\ MonthOf(months[j])[2] < MonthOf(months[k])[2]
                /\ \A s \in DOMAIN bars : \A k \in 1..Len(months) :
                      LET in == {j \in RowsWith(s) :
                                    /\ repDf.rows[j].date.year = MonthOf(months[k])[1]
                                    /\ repDf.rows[j].date.month = MonthOf(months[k])[2]
                                    /\ repDf.rows[j].minutes # NaN}
                          sel == SelectSeq([j \in 1..Len(repDf.rows) |->
                                               IF j \in in THEN repDf.rows[j].minutes ELSE NaN],
                                           LAMBDA x : x # NaN)
                      IN  bars[s][k] = RSum(sel)

====
